---- MODULE Spec2Model ----
(***************************************************************************)
(* updateCursor: the CLI commands check / update / force / list / switch   *)
(* acting on the download directory, the current-reference link, the       *)
(* ledger file and the version file, against a redirecting remote.         *)
(*                                                                         *)
(* Text (file names, version strings, the ledger file) is modelled as      *)
(* tuples of one-character strings, so that the regular expression of      *)
(* SemverFromName, strings.Split, strconv.Atoi, strings.ReplaceAll and the *)
(* ledger line format are computed character by character.                 *)
(***************************************************************************)
EXTENDS Integers, Sequences, FiniteSets, TLC

(***************************************************************************)
(* Bounds of the model.                                                    *)
(***************************************************************************)
\* redirect hops the server may chain before the final URL
MaxHops == 2
\* number of CLI invocations in one run of the model
MaxSteps == 2
\* wall-clock seconds time.Now() may return (0..MaxSec)
MaxSec == 0
MaxLines == 2
MaxTick == 1

(***************************************************************************)
(* Text.                                                                   *)
(***************************************************************************)
TAB == "\t"
LF == "\n"
Digits == {"0", "1", "2", "3", "4", "5", "6", "7", "8", "9"}

DefaultPattern == <<"C", "u", "r", "s", "o", "r", "-", "<", "v", "e", "r", "s", "i", "o", "n", ">", "-", "x", "8", "6", "_", "6", "4", ".", "A", "p", "p", "I", "m", "a", "g", "e">>
CustomPattern == <<"C", "u", "r", "s", "o", "r", "_", "<", "v", "e", "r", "s", "i", "o", "n", ">", ".", "A", "p", "p", "I", "m", "a", "g", "e">>
Placeholder == <<"<", "v", "e", "r", "s", "i", "o", "n", ">">>
NamePrefix == <<"C", "u", "r", "s", "o", "r", "-">>
NameSuffix == <<"-", "x", "8", "6", "_", "6", "4", ".", "A", "p", "p", "I", "m", "a", "g", "e">>
LaunchBase == <<"C", "u", "r", "s", "o", "r", ".", "A", "p", "p", "I", "m", "a", "g", "e">>
OtherBase == <<"c", "u", "r", "s", "o", "r">>
URLBase == <<"l", "i", "n", "u", "x", "-", "x", "6", "4">>
VersionFileBase == <<".", "c", "u", "r", "s", "o", "r", "-", "v", "e", "r", "s", "i", "o", "n">>

\* version strings used as inputs: two valid versions (numeric order differs
\* from text order), a two-component string, and strings the regular
\* expression rejects
V145 == <<"1", ".", "4", ".", "5">>
V1100 == <<"1", ".", "1", "0", ".", "0">>
V14 == <<"1", ".", "4">>
VBad == <<"1", ".", "x", ".", "5">>
Empty == <<>>

HasPrefix(s, p) == Len(s) >= Len(p) /\ SubSeq(s, 1, Len(p)) = p
HasSuffix(s, p) == Len(s) >= Len(p) /\ SubSeq(s, Len(s) - Len(p) + 1, Len(s)) = p

\* strings.Contains(s, sub)
Contains(s, sub) == \E i \in 1..(Len(s) - Len(sub) + 1) : SubSeq(s, i, i + Len(sub) - 1) = sub

\* strings.Split(s, sep) for a one-character separator: n separators give
\* n+1 parts, the k-th part lying between the (k-1)-th and the k-th separator
Split(s, sep) ==
    LET seps == {i \in 1..Len(s) : s[i] = sep}
        n == Cardinality(seps)
        at(k) == IF k = 0 THEN 0
                 ELSE IF k = n + 1 THEN Len(s) + 1
                 ELSE CHOOSE i \in seps : Cardinality({j \in seps : j < i}) = k - 1
    IN [k \in 1..(n + 1) |-> SubSeq(s, at(k - 1) + 1, at(k) - 1)]

\* strings.ReplaceAll(s, old, new), old non-empty: leftmost non-overlapping matches
RECURSIVE ReplaceFrom(_, _, _, _)
ReplaceFrom(s, old, new, i) ==
    IF i > Len(s) THEN <<>>
    ELSE IF i + Len(old) - 1 <= Len(s) /\ SubSeq(s, i, i + Len(old) - 1) = old
         THEN new \o ReplaceFrom(s, old, new, i + Len(old))
         ELSE <<s[i]>> \o ReplaceFrom(s, old, new, i + 1)
ReplaceAll(s, old, new) == ReplaceFrom(s, old, new, 1)

AllDigits(s) == \A i \in 1..Len(s) : s[i] \in Digits

(***************************************************************************)
(* internal/version                                                        *)
(***************************************************************************)
\* the capture group [0-9]+(\.[0-9]+)* of the regular expression
VersionRe(s) ==
    LET parts == Split(s, ".")
    IN \A i \in 1..Len(parts) : Len(parts[i]) > 0 /\ AllDigits(parts[i])

\* SemverFromName: ^Cursor-([0-9]+(\.[0-9]+)*)-x86_64\.AppImage$ ; "" when no match
SemverFromName(filename) ==
    IF filename = Empty THEN Empty
    ELSE IF HasPrefix(filename, NamePrefix) /\ HasSuffix(filename, NameSuffix)
            /\ Len(filename) >= Len(NamePrefix) + Len(NameSuffix)
            /\ VersionRe(SubSeq(filename, Len(NamePrefix) + 1, Len(filename) - Len(NameSuffix)))
         THEN SubSeq(filename, Len(NamePrefix) + 1, Len(filename) - Len(NameSuffix))
         ELSE Empty

DigitVal(c) == CHOOSE n \in 0..9 : <<"0", "1", "2", "3", "4", "5", "6", "7", "8", "9">>[n + 1] = c

RECURSIVE DigitsVal(_)
DigitsVal(s) == IF s = <<>> THEN 0 ELSE 10 * DigitsVal(SubSeq(s, 1, Len(s) - 1)) + DigitVal(s[Len(s)])

\* strconv.Atoi: an optional sign, then one or more decimal digits
Atoi(s) ==
    LET signed == Len(s) > 0 /\ s[1] \in {"+", "-"}
        body == IF signed THEN SubSeq(s, 2, Len(s)) ELSE s
    IN IF Len(body) = 0 \/ ~AllDigits(body) THEN [ok |-> FALSE, val |-> 0]
       ELSE [ok |-> TRUE, val |-> IF signed /\ s[1] = "-" THEN 0 - DigitsVal(body) ELSE DigitsVal(body)]

\* ParseSemver: exactly three dot-separated parts, each accepted by Atoi
ParseSemver(version) ==
    LET parts == Split(version, ".")
        bad == [ok |-> FALSE, major |-> 0, minor |-> 0, patch |-> 0]
    IN IF version = Empty THEN bad
       ELSE IF Len(parts) # 3 THEN bad
       ELSE IF ~Atoi(parts[1]).ok THEN bad
       ELSE IF ~Atoi(parts[2]).ok THEN bad
       ELSE IF ~Atoi(parts[3]).ok THEN bad
       ELSE [ok |-> TRUE, major |-> Atoi(parts[1]).val, minor |-> Atoi(parts[2]).val,
             patch |-> Atoi(parts[3]).val]

\* a LessThan that skips the minor component
LessThan_skippingMinor(v1, v2) ==
    LET p1 == ParseSemver(v1)
        p2 == ParseSemver(v2)
    IN IF v1 = Empty \/ v2 = Empty THEN FALSE
       ELSE IF ~p1.ok THEN FALSE
       ELSE IF ~p2.ok THEN FALSE
       ELSE IF p1.major < p2.major THEN TRUE
       ELSE IF p1.major > p2.major THEN FALSE
       ELSE p1.patch < p2.patch

\* a LessThan that compares the patch component with <=
LessThan_orEqual(v1, v2) ==
    LET p1 == ParseSemver(v1)
        p2 == ParseSemver(v2)
    IN IF v1 = Empty \/ v2 = Empty THEN FALSE
       ELSE IF ~p1.ok THEN FALSE
       ELSE IF ~p2.ok THEN FALSE
       ELSE IF p1.major < p2.major THEN TRUE
       ELSE IF p1.major > p2.major THEN FALSE
       ELSE IF p1.minor < p2.minor THEN TRUE
       ELSE IF p1.minor > p2.minor THEN FALSE
       ELSE p1.patch <= p2.patch

\* LessThan: false when either side is empty or does not parse
LessThan(v1, v2) ==
    LET p1 == ParseSemver(v1)
        p2 == ParseSemver(v2)
    IN IF v1 = Empty \/ v2 = Empty THEN FALSE
       ELSE IF ~p1.ok THEN FALSE
       ELSE IF ~p2.ok THEN FALSE
       ELSE IF p1.major < p2.major THEN TRUE
       ELSE IF p1.major > p2.major THEN FALSE
       ELSE IF p1.minor < p2.minor THEN TRUE
       ELSE IF p1.minor > p2.minor THEN FALSE
       ELSE p1.patch < p2.patch

(***************************************************************************)
(* internal/config                                                         *)
(***************************************************************************)
\* Config.GenerateFileName
GenerateFileName(pattern, version) == ReplaceAll(pattern, Placeholder, version)


(***************************************************************************)
(* Configuration, paths and the remote.                                    *)
(***************************************************************************)
DownloadDir == "downloads"
BinDir == "bin"
ConfigDir == "config"

\* NewUpdater: launchLink = filepath.Join(workDir, "Cursor.AppImage")
LaunchLink == [dir |-> DownloadDir, base |-> LaunchBase]

\* values of latest_symlink: the default, another name in the download
\* directory, and a path in another directory
LinkPaths == {LaunchLink, [dir |-> DownloadDir, base |-> OtherBase], [dir |-> BinDir, base |-> LaunchBase]}
Patterns == {DefaultPattern, CustomPattern}
Configs == [FileNamePattern : Patterns, LatestSymlink : LinkPaths]

\* the versions the server may publish, and the name of the file it serves
Published == {V145, V1100, V14}
ServedName(v) == NamePrefix \o v \o NameSuffix

\* the server: the number of redirects from the download URL and the base
\* name of the last URL; without a redirect the last URL is the download
\* URL itself (.../linux-x64)
Remotes ==
    {[hops |-> 0, name |-> URLBase]}
    \cup {[hops |-> h, name |-> ServedName(v)] : h \in 1..MaxHops, v \in Published}

\* what time.Now() may return: an instant with sub-second part, in a zone
Times == [sec : 0..MaxSec, nsec : {500}, zone : {3600}]

\* switch arguments tried
SwitchArgs == {V145, V1100, V14, VBad, Empty}

\* environment failures a command may meet (at most one is injected per
\* command; a command aborts at its first fatal failure); "hstatus" is a final
\* answer to the HEAD requests with a status that is not a success, which
\* GetRemoteVersion does not read
Faults == {"none", "head1", "head2", "hstatus", "get", "status", "write", "symlink", "ledger"}

(***************************************************************************)
(* The text functions tabulated over the texts of the model: the same      *)
(* values as SemverFromName, LessThan and GenerateFileName, computed once. *)
(***************************************************************************)
VersionTexts == Published \cup SwitchArgs
NameTexts ==
    {GenerateFileName(p, v) : p \in Patterns, v \in VersionTexts}
    \cup {ServedName(v) : v \in Published} \cup {URLBase, LaunchBase, OtherBase}
SemverTable == [n \in NameTexts |-> SemverFromName(n)]
LessTable == [a \in VersionTexts, b \in VersionTexts |-> LessThan(a, b)]
FileNameTable == [p \in Patterns, v \in VersionTexts |-> GenerateFileName(p, v)]

SemverOf(n) == IF n \in NameTexts THEN SemverTable[n] ELSE SemverFromName(n)
IsLess(a, b) == IF a \in VersionTexts /\ b \in VersionTexts THEN LessTable[a, b] ELSE LessThan(a, b)
FileNameOf(p, v) == IF v \in VersionTexts THEN FileNameTable[p, v] ELSE GenerateFileName(p, v)

VARIABLES cfg, remote, dirs, files, nodes, vfile, ledger, last, steps
vars == <<cfg, remote, dirs, files, nodes, vfile, ledger, last, steps>>

NoNode == [kind |-> "none"]
Symlink(target) == [kind |-> "symlink", target |-> target]
Content(body, full) == [body |-> body, full |-> full]
\* a regular file at a reference path
FileNode(content) == [kind |-> "file", content |-> content]

World == [dirs |-> dirs, files |-> files, nodes |-> nodes, vfile |-> vfile, ledger |-> ledger]

\* errors are the chain of messages fmt.Errorf("...: %v", err) builds;
\* <<>> is nil
Nil == <<>>
Wrap(msg, err) == <<msg>> \o err


(***************************************************************************)
(* The file system as the updater sees it.                                 *)
(***************************************************************************)
\* os.Stat of a file of the download directory
ArtifactExists(w, name) == name \in DOMAIN w.files

\* os.Stat of a reference path: follows a symbolic link to its target
StatExists(w, path) ==
    LET node == w.nodes[path]
    IN CASE node.kind = "none" -> FALSE
         [] node.kind = "symlink" -> node.target.base \in DOMAIN w.files
         [] node.kind = "file" -> TRUE

\* os.Lstat of a reference path: the link itself
LstatExists(w, path) == w.nodes[path].kind # "none"

WriteFile(w, name, content) ==
    [w EXCEPT !.files = [n \in DOMAIN w.files \cup {name} |-> IF n = name THEN content ELSE w.files[n]]]

RemoveFile(w, name) ==
    [w EXCEPT !.files = [n \in DOMAIN w.files \ {name} |-> w.files[n]]]

\* filepath.Rel(symlinkDir, filePath) for a file of the download directory
RelTarget(linkDir, name) ==
    IF linkDir = DownloadDir THEN [rel |-> <<>>, base |-> name]
    ELSE [rel |-> <<"..", DownloadDir>>, base |-> name]

\* crypto/sha256 + hex: a collision-free stand-in, one text per content
SHA256Hex(content) == <<"#">> \o content.body \o <<IF content.full THEN "=" ELSE "~">>

\* the characters of file names in the order of their bytes
ByteOrder ==
    <<"-", ".", "0", "1", "2", "3", "4", "5", "6", "7", "8", "9", "A", "B", "C", "D",
      "E", "F", "G", "H", "I", "J", "K", "L", "M", "N", "O", "P", "Q", "R", "S", "T",
      "U", "V", "W", "X", "Y", "Z", "_", "a", "b", "c", "d", "e", "f", "g", "h", "i",
      "j", "k", "l", "m", "n", "o", "p", "q", "r", "s", "t", "u", "v", "w", "x", "y",
      "z">>
Rank(c) == CHOOSE i \in 1..Len(ByteOrder) : ByteOrder[i] = c

\* a < b in the byte order of file names
ByteLess(a, b) ==
    \E i \in 1..(Len(a) + 1) :
        /\ \A j \in 1..(i - 1) : j <= Len(b) /\ a[j] = b[j]
        /\ i <= Len(b)
        /\ (i = Len(a) + 1 \/ (a[i] # b[i] /\ Rank(a[i]) < Rank(b[i])))

\* FileInfo.Size of a file
Size(content) == IF content.full THEN Len(content.body) ELSE Len(content.body) - 1

\* the names of the entries of the work directory: the artifact files, the
\* version file and the reference paths that lie in it
DirNames(w) ==
    DOMAIN w.files
    \cup {p.base : p \in {q \in DOMAIN w.nodes : q.dir = DownloadDir /\ w.nodes[q].kind # "none"}}
    \cup (IF w.vfile = <<>> THEN {} ELSE {VersionFileBase})

\* os.ReadDir(workDir): the entries sorted by file name
ReadDir(w) ==
    [i \in 1..Cardinality(DirNames(w)) |->
        CHOOSE n \in DirNames(w) : Cardinality({m \in DirNames(w) : ByteLess(m, n)}) = i - 1]

\* os.Stat of an entry of the work directory: its size, following a symbolic
\* link; ok is false when the link's target is missing
StatSize(w, name) ==
    IF name \in DOMAIN w.files THEN [ok |-> TRUE, size |-> Size(w.files[name])]
    ELSE IF name = VersionFileBase /\ w.vfile # <<>>
    THEN [ok |-> TRUE, size |-> Len(<<"V", "E", "R", "S", "I", "O", "N", "=">>) + Len(w.vfile[1]) + 1]
    ELSE LET node == w.nodes[[dir |-> DownloadDir, base |-> name]]
         IN IF node.kind = "file" THEN [ok |-> TRUE, size |-> Size(node.content)]
            ELSE IF node.target.base \in DOMAIN w.files
            THEN [ok |-> TRUE, size |-> Size(w.files[node.target.base])]
            ELSE [ok |-> FALSE, size |-> 0]

(***************************************************************************)
(* internal/ledger                                                         *)
(***************************************************************************)
UTC(t) == [t EXCEPT !.zone = 0]

\* two decimal digits of a number below 100
TwoDigits(n) ==
    LET ds == <<"0", "1", "2", "3", "4", "5", "6", "7", "8", "9">>
    IN <<ds[(n \div 10) + 1], ds[(n % 10) + 1]>>

\* Time.Format(time.RFC3339): the local clock reading HH:MM:SS to the second
\* and the zone designator, Z or +HH:MM / -HH:MM (the date part, the same in
\* every timestamp of the model, is left out); the sub-second part is not
\* printed
FormatRFC3339(t) ==
    LET clock == t.sec + t.zone
        off == IF t.zone < 0 THEN 0 - t.zone ELSE t.zone
    IN TwoDigits(clock \div 3600) \o <<":">> \o TwoDigits((clock % 3600) \div 60) \o <<":">>
       \o TwoDigits(clock % 60)
       \o (IF t.zone = 0 THEN <<"Z">>
           ELSE <<IF t.zone < 0 THEN "-" ELSE "+">> \o TwoDigits(off \div 3600) \o <<":">>
                \o TwoDigits((off % 3600) \div 60))

\* a FormatLine that prints the time in its own zone, without Timestamp.UTC()
FormatLine_localTime(entry) ==
    FormatRFC3339(entry.Timestamp) \o <<TAB>> \o entry.Version \o <<TAB>> \o entry.InternalID
        \o <<TAB>> \o entry.Filename \o <<TAB>> \o entry.SHA256 \o <<TAB>> \o entry.Action \o <<LF>>

FormatLine(entry) ==
    FormatRFC3339(UTC(entry.Timestamp)) \o <<TAB>> \o entry.Version \o <<TAB>> \o entry.InternalID
        \o <<TAB>> \o entry.Filename \o <<TAB>> \o entry.SHA256 \o <<TAB>> \o entry.Action \o <<LF>>

\* an Append that opens the file with O_TRUNC instead of O_APPEND
LedgerAppend_truncating(w, entry, ok) ==
    IF ~ok THEN [err |-> <<"failed to open ledger file">>, w |-> w]
    ELSE [err |-> Nil,
          w |-> [w EXCEPT !.dirs = @ \cup {ConfigDir}, !.ledger = FormatLine(entry)]]

\* Ledger.Append: MkdirAll of the ledger's directory, open with O_APPEND, write one line
LedgerAppend(w, entry, ok) ==
    IF ~ok THEN [err |-> <<"failed to open ledger file">>, w |-> w]
    ELSE [err |-> Nil,
          w |-> [w EXCEPT !.dirs = @ \cup {ConfigDir}, !.ledger = @ \o FormatLine(entry)]]

LedgerLines(text) == Cardinality({i \in 1..Len(text) : text[i] = LF})

\* strings.TrimSpace: without the leading and the trailing white space
Space == {" ", TAB, LF, "\r"}
TrimSpace(s) ==
    LET keep == {i \in 1..Len(s) : s[i] \notin Space}
    IN IF keep = {} THEN <<>>
       ELSE SubSeq(s, CHOOSE i \in keep : \A j \in keep : i <= j,
                      CHOOSE i \in keep : \A j \in keep : i >= j)

\* bufio.Scanner with ScanLines: the text between line feeds, and a last
\* line without a line feed when it is not empty
ScanLines(text) ==
    LET parts == Split(text, LF)
    IN IF parts[Len(parts)] = <<>> THEN SubSeq(parts, 1, Len(parts) - 1) ELSE parts

\* time.Parse(time.RFC3339, s) of HH:MM:SS and Z or +HH:MM / -HH:MM: the
\* instant in seconds, no sub-second part, the zone of the text
ParseRFC3339(s) ==
    LET num(i) == 10 * DigitVal(s[i]) + DigitVal(s[i + 1])
        bad == [ok |-> FALSE, t |-> [sec |-> 0, nsec |-> 0, zone |-> 0]]
        clock == num(1) * 3600 + num(4) * 60 + num(7)
        off == (IF s[9] = "-" THEN 0 - 1 ELSE 1) * (num(10) * 3600 + num(13) * 60)
    IN IF Len(s) \notin {9, 14} THEN bad
       ELSE IF \E i \in {1, 2, 4, 5, 7, 8} : s[i] \notin Digits THEN bad
       ELSE IF s[3] # ":" \/ s[6] # ":" THEN bad
       ELSE IF num(1) > 23 \/ num(4) > 59 \/ num(7) > 59 THEN bad
       ELSE IF Len(s) = 9
            THEN IF s[9] = "Z" THEN [ok |-> TRUE, t |-> [sec |-> clock, nsec |-> 0, zone |-> 0]]
                 ELSE bad
       ELSE IF s[9] \notin {"+", "-"} \/ s[12] # ":" THEN bad
       ELSE IF \E i \in {10, 11, 13, 14} : s[i] \notin Digits THEN bad
       ELSE IF num(10) > 23 \/ num(13) > 59 THEN bad
       ELSE [ok |-> TRUE, t |-> [sec |-> clock - off, nsec |-> 0, zone |-> off]]

\* parseEntry: exactly six tab-separated parts, the first an RFC 3339 time
parseEntry(line) ==
    LET parts == Split(line, TAB)
        none == [Timestamp |-> [sec |-> 0, nsec |-> 0, zone |-> 0], Version |-> Empty,
                 InternalID |-> Empty, Filename |-> Empty, SHA256 |-> Empty, Action |-> Empty]
    IN IF Len(parts) # 6 THEN [ok |-> FALSE, entry |-> none]
       ELSE IF ~ParseRFC3339(parts[1]).ok THEN [ok |-> FALSE, entry |-> none]
       ELSE [ok |-> TRUE,
             entry |-> [Timestamp |-> ParseRFC3339(parts[1]).t, Version |-> parts[2],
                        InternalID |-> parts[3], Filename |-> parts[4], SHA256 |-> parts[5],
                        Action |-> parts[6]]]

\* the ledger file as ReadAll meets it: whether it exists, whether it can be
\* opened, and its text
LedgerFile(exists, readable, text) == [exists |-> exists, readable |-> readable, text |-> text]

\* the scanning loop of ReadAll from line i on: empty and malformed lines are skipped
RECURSIVE ReadFrom(_, _)
ReadFrom(lines, i) ==
    IF i > Len(lines) THEN <<>>
    ELSE LET line == TrimSpace(lines[i])
         IN IF line = <<>> THEN ReadFrom(lines, i + 1)
            ELSE (IF parseEntry(line).ok THEN <<parseEntry(line).entry>> ELSE <<>>)
                 \o ReadFrom(lines, i + 1)

\* Ledger.ReadAll
ReadAll(file) ==
    IF ~file.exists THEN [err |-> Nil, entries |-> <<>>]
    ELSE IF ~file.readable THEN [err |-> <<"failed to open ledger file">>, entries |-> <<>>]
    ELSE [err |-> Nil, entries |-> ReadFrom(ScanLines(file.text), 1)]

\* Time.After
After(t, u) == t.sec > u.sec \/ (t.sec = u.sec /\ t.nsec > u.nsec)

\* the loop of GetLatestVersion over entries[i..]
RECURSIVE LatestFrom(_, _, _)
LatestFrom(entries, i, latest) ==
    IF i > Len(entries) THEN latest
    ELSE LatestFrom(entries, i + 1,
                    IF After(entries[i].Timestamp, latest.Timestamp) THEN entries[i] ELSE latest)

\* a GetLatestVersion that returns the entry of the last line
GetLatestVersion_lastLine(file) ==
    CHOOSE res \in
        {IF all.err # Nil THEN [err |-> all.err, entry |-> <<>>]
         ELSE IF Len(all.entries) = 0
         THEN [err |-> <<"no entries found in ledger">>, entry |-> <<>>]
         ELSE [err |-> Nil, entry |-> <<all.entries[Len(all.entries)]>>]
         : all \in {ReadAll(file)}} : TRUE

\* Ledger.GetLatestVersion
GetLatestVersion(file) ==
    CHOOSE res \in
        {IF all.err # Nil THEN [err |-> all.err, entry |-> <<>>]
         ELSE IF Len(all.entries) = 0
         THEN [err |-> <<"no entries found in ledger">>, entry |-> <<>>]
         ELSE [err |-> Nil, entry |-> <<LatestFrom(all.entries, 2, all.entries[1])>>]
         : all \in {ReadAll(file)}} : TRUE

\* a FindByInternalID that stops at the first entry found
FindByInternalID_firstOnly(file, id) ==
    CHOOSE res \in
        {IF all.err # Nil THEN [err |-> all.err, entries |-> <<>>]
         ELSE [err |-> Nil,
               entries |-> IF \E i \in 1..Len(all.entries) : all.entries[i].InternalID = id
                           THEN <<SelectSeq(all.entries, LAMBDA e : e.InternalID = id)[1]>>
                           ELSE <<>>]
         : all \in {ReadAll(file)}} : TRUE

\* Ledger.FindByInternalID
FindByInternalID(file, id) ==
    CHOOSE res \in
        {IF all.err # Nil THEN [err |-> all.err, entries |-> <<>>]
         ELSE [err |-> Nil, entries |-> SelectSeq(all.entries, LAMBDA e : e.InternalID = id)]
         : all \in {ReadAll(file)}} : TRUE

(***************************************************************************)
(* internal/updater                                                        *)
(***************************************************************************)
\* client.Head with a CheckRedirect that returns nil: the request is sent to
\* urls[i], and every redirect answer is followed to the next URL; the
\* response is that of the last request. urls are the base names of the URLs
\* (without query), status the answer of the last one.
RECURSIVE HeadFrom(_, _, _)
HeadFrom(urls, status, i) ==
    IF i < Len(urls) THEN HeadFrom(urls, status, i + 1)
    ELSE [hops |-> i - 1, name |-> urls[i], status |-> status]

\* a client that follows one redirect only, as DownloadCursor does
ClientHead_oneHop(urls, status) ==
    IF Len(urls) > 1 THEN [hops |-> 1, name |-> urls[2], status |-> IF Len(urls) = 2 THEN status ELSE 302]
    ELSE [hops |-> 0, name |-> urls[1], status |-> status]

ClientHead(urls, status) == HeadFrom(urls, status, 1)

\* GetRemoteVersion: HEAD following every redirect; the version comes from
\* the base name of the last URL
GetRemoteVersion(r, ok) ==
    IF ~ok THEN [err |-> <<"failed to check redirect">>, version |-> Empty]
    ELSE IF SemverOf(r.name) = Empty
         THEN [err |-> <<"could not extract version from URL">>, version |-> Empty]
         ELSE [err |-> Nil, version |-> SemverOf(r.name)]

\* the loop of GetLocalVersion over the directory entries from i on: the
\* first entry whose name holds a dot and whose size is that of the reference
RECURSIVE MatchBySize(_, _, _, _)
MatchBySize(w, listing, size, i) ==
    IF i > Len(listing) THEN Empty
    ELSE IF ~Contains(cfg.FileNamePattern, Placeholder) THEN MatchBySize(w, listing, size, i + 1)
    ELSE IF ~Contains(listing[i], <<".">>) THEN MatchBySize(w, listing, size, i + 1)
    ELSE IF StatSize(w, listing[i]).ok /\ StatSize(w, listing[i]).size = size
    THEN SemverOf(listing[i])
    ELSE MatchBySize(w, listing, size, i + 1)

\* GetLocalVersion: os.Stat, then os.Readlink of launchLink, and for a regular
\* file the search of the work directory for a file of the same size (the
\* directory holds files only, and Stat and ReadDir succeed)
GetLocalVersion(w) ==
    IF ~StatExists(w, LaunchLink) THEN Empty
    ELSE IF w.nodes[LaunchLink].kind = "symlink" THEN SemverOf(w.nodes[LaunchLink].target.base)
    ELSE MatchBySize(w, ReadDir(w), Size(w.nodes[LaunchLink].content), 1)

\* CheckForUpdates
CheckForUpdates(w, r, ok) ==
    LET rv == GetRemoteVersion(r, ok)
        localVersion == GetLocalVersion(w)
    IN IF rv.err # Nil THEN [err |-> rv.err, needs |-> FALSE, remote |-> Empty]
       ELSE IF localVersion = Empty THEN [err |-> Nil, needs |-> TRUE, remote |-> rv.version]
       ELSE [err |-> Nil, needs |-> IsLess(localVersion, rv.version), remote |-> rv.version]

\* ensureDirectories: MkdirAll of the work directory, the download directory,
\* the link's directory and the ledger's directory
ensureDirectories(w) ==
    [w EXCEPT !.dirs = @ \cup {DownloadDir, cfg.LatestSymlink.dir, ConfigDir}]

\* requests the default http client makes in a row before http.Get gives up
GetRedirectLimit == 10

\* a DownloadCursor that fetches the file also when it is already there
DownloadCursor_refetching(w, r, fault) ==
    LET rv == GetRemoteVersion(r, fault # "head2")
        filename == FileNameOf(cfg.FileNamePattern, rv.version)
        w1 == ensureDirectories(w)
    IN IF rv.err # Nil
       THEN [err |-> Wrap("failed to get remote version", rv.err), filename |-> Empty, w |-> w, gets |-> 0]
       ELSE IF fault = "get" \/ r.hops >= GetRedirectLimit
       THEN [err |-> <<"failed to download">>, filename |-> Empty, w |-> w, gets |-> 1]
       ELSE IF fault = "status"
       THEN [err |-> <<"download failed with status">>, filename |-> Empty, w |-> w, gets |-> 1]
       ELSE IF fault = "write"
       THEN [err |-> <<"failed to write file">>, filename |-> Empty,
             w |-> WriteFile(w1, filename, Content(r.name, FALSE)), gets |-> 1]
       ELSE [err |-> Nil, filename |-> filename,
             w |-> WriteFile(w1, filename, Content(r.name, TRUE)), gets |-> 1]

\* DownloadCursor
DownloadCursor(w, r, fault) ==
    LET rv == GetRemoteVersion(r, fault # "head2")
        filename == FileNameOf(cfg.FileNamePattern, rv.version)
        w1 == ensureDirectories(w)
    IN IF rv.err # Nil
       THEN [err |-> Wrap("failed to get remote version", rv.err), filename |-> Empty, w |-> w, gets |-> 0]
       ELSE IF ArtifactExists(w, filename)
       THEN [err |-> Nil, filename |-> filename, w |-> w, gets |-> 0]
       ELSE IF fault = "get" \/ r.hops >= GetRedirectLimit
       THEN [err |-> <<"failed to download">>, filename |-> Empty, w |-> w, gets |-> 1]
       ELSE IF fault = "status"
       THEN [err |-> <<"download failed with status">>, filename |-> Empty, w |-> w, gets |-> 1]
       ELSE IF fault = "write"
       THEN [err |-> <<"failed to write file">>, filename |-> Empty,
             w |-> WriteFile(w1, filename, Content(r.name, FALSE)), gets |-> 1]
       ELSE [err |-> Nil, filename |-> filename,
             w |-> WriteFile(w1, filename, Content(r.name, TRUE)), gets |-> 1]

\* CalculateSHA256 of a file of the work directory
CalculateSHA256(w, name) ==
    IF ~ArtifactExists(w, name) THEN [err |-> <<"failed to open file">>, sum |-> Empty]
    ELSE [err |-> Nil, sum |-> SHA256Hex(w.files[name])]

\* a SwitchToVersion that removes the existing link before it looks for the file
SwitchToVersion_removingFirst(w, version, fault) ==
    LET filename == FileNameOf(cfg.FileNamePattern, version)
        symlinkPath == cfg.LatestSymlink
        removed == [w EXCEPT !.nodes[symlinkPath] = NoNode]
    IN IF ~ArtifactExists(w, filename)
       THEN [err |-> <<"version file not found">>, w |-> removed]
       ELSE IF fault = "symlink" \/ symlinkPath.dir \notin w.dirs
       THEN [err |-> <<"failed to create symlink">>, w |-> removed]
       ELSE [err |-> Nil,
             w |-> [w EXCEPT !.nodes[symlinkPath] = Symlink(RelTarget(symlinkPath.dir, filename))]]

\* SwitchToVersion
SwitchToVersion(w, version, fault) ==
    LET filename == FileNameOf(cfg.FileNamePattern, version)
        symlinkPath == cfg.LatestSymlink
        removed == [w EXCEPT !.nodes[symlinkPath] = NoNode]
    IN IF ~ArtifactExists(w, filename)
       THEN [err |-> <<"version file not found">>, w |-> w]
       ELSE IF fault = "symlink" \/ symlinkPath.dir \notin w.dirs
       THEN [err |-> <<"failed to create symlink">>, w |-> removed]
       ELSE [err |-> Nil,
             w |-> [w EXCEPT !.nodes[symlinkPath] = Symlink(RelTarget(symlinkPath.dir, filename))]]

(***************************************************************************)
(* internal/cli                                                            *)
(***************************************************************************)
\* updateVersionFile: os.WriteFile in the download directory; a failure is a warning
updateVersionFile(w, version) ==
    IF DownloadDir \in w.dirs THEN [w EXCEPT !.vfile = <<version>>] ELSE w

Entry(t, version, filename, sum, action) ==
    [Timestamp |-> t, Version |-> version, InternalID |-> Empty, Filename |-> filename,
     SHA256 |-> sum, Action |-> <<action>>]

Result(err, w, gets, heads) == [err |-> err, w |-> w, gets |-> gets, heads |-> heads]

\* an executeCheck that records the remote version in the version file
executeCheck_recording(w, r, fault) ==
    LET localVersion == GetLocalVersion(w)
        rv == GetRemoteVersion(r, fault # "head1")
    IN IF rv.err # Nil THEN Result(Wrap("error getting remote version", rv.err), w, 0, 1)
       ELSE IF localVersion = Empty \/ IsLess(localVersion, rv.version)
       THEN Result(<<"update needed">>, updateVersionFile(w, rv.version), 0, 1)
       ELSE Result(Nil, w, 0, 1)

\* executeCheck
executeCheck(w, r, fault) ==
    LET localVersion == GetLocalVersion(w)
        rv == GetRemoteVersion(r, fault # "head1")
    IN IF rv.err # Nil THEN Result(Wrap("error getting remote version", rv.err), w, 0, 1)
       ELSE IF localVersion = Empty \/ IsLess(localVersion, rv.version)
       THEN Result(<<"update needed">>, w, 0, 1)
       ELSE Result(Nil, w, 0, 1)

\* executeUpdate; r1 is the remote at CheckForUpdates, r2 at DownloadCursor
executeUpdate(w, r1, r2, fault, t) ==
    CHOOSE res \in
        {LET sha == CalculateSHA256(dl.w, dl.filename)
             sw == SwitchToVersion(dl.w, chk.remote, fault)
             app == LedgerAppend(sw.w, Entry(t, chk.remote, dl.filename, sha.sum, "update"),
                                 fault # "ledger")
         IN IF chk.err # Nil THEN Result(Wrap("error checking for updates", chk.err), w, 0, 1)
            ELSE IF ~chk.needs THEN Result(Nil, w, 0, 1)
            ELSE IF dl.err # Nil THEN Result(Wrap("error downloading Cursor", dl.err), dl.w, dl.gets, 2)
            ELSE IF sha.err # Nil THEN Result(Wrap("error calculating SHA256", sha.err), dl.w, dl.gets, 2)
            ELSE IF sw.err # Nil THEN Result(Wrap("error switching to version", sw.err), sw.w, dl.gets, 2)
            ELSE Result(Nil, updateVersionFile(app.w, chk.remote), dl.gets, 2)
         : chk \in {CheckForUpdates(w, r1, fault # "head1")},
           dl \in {DownloadCursor(w, r2, fault)}} : TRUE

\* an executeForce that leaves the existing artifact file in place
executeForce_keepingFile(w, r1, r2, fault, t) ==
    CHOOSE res \in
        {LET sha == CalculateSHA256(dl.w, dl.filename)
             sw == SwitchToVersion(dl.w, rv.version, fault)
             app == LedgerAppend(sw.w, Entry(t, rv.version, dl.filename, sha.sum, "force"),
                                 fault # "ledger")
         IN IF rv.err # Nil THEN Result(Wrap("error getting remote version", rv.err), w, 0, 1)
            ELSE IF dl.err # Nil THEN Result(Wrap("error downloading Cursor", dl.err), dl.w, dl.gets, 2)
            ELSE IF sha.err # Nil THEN Result(Wrap("error calculating SHA256", sha.err), dl.w, dl.gets, 2)
            ELSE IF sw.err # Nil THEN Result(Wrap("error switching to version", sw.err), sw.w, dl.gets, 2)
            ELSE Result(Nil, updateVersionFile(app.w, rv.version), dl.gets, 2)
         : rv \in {GetRemoteVersion(r1, fault # "head1")},
           dl \in {DownloadCursor(w, r2, fault)}} : TRUE

\* executeForce
executeForce(w, r1, r2, fault, t) ==
    CHOOSE res \in
        {LET sha == CalculateSHA256(dl.w, dl.filename)
             sw == SwitchToVersion(dl.w, rv.version, fault)
             app == LedgerAppend(sw.w, Entry(t, rv.version, dl.filename, sha.sum, "force"),
                                 fault # "ledger")
         IN IF rv.err # Nil THEN Result(Wrap("error getting remote version", rv.err), w, 0, 1)
            ELSE IF dl.err # Nil THEN Result(Wrap("error downloading Cursor", dl.err), dl.w, dl.gets, 2)
            ELSE IF sha.err # Nil THEN Result(Wrap("error calculating SHA256", sha.err), dl.w, dl.gets, 2)
            ELSE IF sw.err # Nil THEN Result(Wrap("error switching to version", sw.err), sw.w, dl.gets, 2)
            ELSE Result(Nil, updateVersionFile(app.w, rv.version), dl.gets, 2)
         : rv \in {GetRemoteVersion(r1, fault # "head1")},
           dl \in {LET first == FileNameOf(cfg.FileNamePattern, GetRemoteVersion(r1, fault # "head1").version)
                   IN DownloadCursor(IF ArtifactExists(w, first) THEN RemoveFile(w, first) ELSE w,
                                     r2, fault)}} : TRUE

\* executeList: reads the ledger and prints it
executeList(w) == Result(Nil, w, 0, 0)

\* an executeSwitch that returns the error of the ledger append
executeSwitch_failingOnLedger(w, ver, fault, t) ==
    LET sw == SwitchToVersion(w, ver, fault)
        app == LedgerAppend(sw.w, Entry(t, ver, FileNameOf(cfg.FileNamePattern, ver), Empty, "switch"),
                            fault # "ledger")
    IN IF SemverOf(NamePrefix \o ver \o NameSuffix) = Empty
       THEN Result(<<"invalid version format">>, w, 0, 0)
       ELSE IF sw.err # Nil THEN Result(Wrap("error switching to version", sw.err), sw.w, 0, 0)
       ELSE IF app.err # Nil THEN Result(Wrap("failed to log switch", app.err), sw.w, 0, 0)
       ELSE Result(Nil, updateVersionFile(app.w, ver), 0, 0)

\* executeSwitch
executeSwitch(w, ver, fault, t) ==
    LET sw == SwitchToVersion(w, ver, fault)
        app == LedgerAppend(sw.w, Entry(t, ver, FileNameOf(cfg.FileNamePattern, ver), Empty, "switch"),
                            fault # "ledger")
    IN IF SemverOf(NamePrefix \o ver \o NameSuffix) = Empty
       THEN Result(<<"invalid version format">>, w, 0, 0)
       ELSE IF sw.err # Nil THEN Result(Wrap("error switching to version", sw.err), sw.w, 0, 0)
       ELSE Result(Nil, updateVersionFile(app.w, ver), 0, 0)

\* executeCommand: `switch` without a version, `--help`, and any other word
executeOther(w, command) ==
    CASE command = "switch" -> Result(<<"usage: switch <version>">>, w, 0, 0)
      [] command = "--help" -> Result(Nil, w, 0, 0)
      [] OTHER -> Result(<<"unknown command">>, w, 0, 0)

\* a main that exits with status 1 on every error
ExitStatus_generic(err) == IF err = Nil THEN 0 ELSE 1

\* main: the exit status of the process
ExitStatus(err) == IF err = Nil THEN 0 ELSE IF err = <<"update needed">> THEN 10 ELSE 1

(***************************************************************************)
(* The state machine: one step is one invocation of the CLI.               *)
(***************************************************************************)
\* what one invocation was and what its caller saw of it
Last(cmd, arg, fault, res) ==
    [cmd |-> cmd, arg |-> arg, fault |-> fault, err |-> res.err, exit |-> ExitStatus(res.err),
     gets |-> res.gets, heads |-> res.heads]

Commit(res) ==
    /\ dirs' = res.w.dirs
    /\ files' = res.w.files
    /\ nodes' = res.w.nodes
    /\ vfile' = res.w.vfile
    /\ ledger' = res.w.ledger

\* download directories a start may find: any of the published artifacts, complete
InitFiles ==
    {[n \in {FileNameOf(cfg.FileNamePattern, v) : v \in vs} |->
        Content(ServedName(CHOOSE v \in vs : FileNameOf(cfg.FileNamePattern, v) = n), TRUE)]
        : vs \in SUBSET Published}

Init ==
    /\ cfg \in Configs
    /\ remote \in Remotes
    /\ files \in InitFiles
    /\ \E target \in {Empty} \cup DOMAIN files :
          nodes = [p \in {LaunchLink, cfg.LatestSymlink} |->
                     IF p = cfg.LatestSymlink /\ target # Empty
                     THEN Symlink(RelTarget(p.dir, target)) ELSE NoNode]
    /\ dirs \in {d \in SUBSET {DownloadDir, BinDir, ConfigDir} :
                   /\ (files # <<>> => DownloadDir \in d)
                   /\ (nodes[cfg.LatestSymlink].kind # "none" => cfg.LatestSymlink.dir \in d)
                   /\ (ConfigDir \in d)
                   /\ (BinDir \in d => cfg.LatestSymlink.dir = BinDir)
                   /\ (BinDir \in d => DownloadDir \in d)}
    /\ vfile = <<>>
    /\ ledger = <<>>
    /\ last = [cmd |-> "start", arg |-> Empty, fault |-> "none", err |-> Nil, exit |-> 0, gets |-> 0, heads |-> 0]
    /\ steps = 0

Check ==
    /\ steps < MaxSteps
    /\ \E fault \in {"none", "head1"} :
        \E res \in {executeCheck(World, remote, fault)} :
           /\ Commit(res)
           /\ last' = Last("check", Empty, fault, res)
           /\ steps' = steps + 1
           /\ UNCHANGED <<cfg, remote>>

\* a fault other than "none" keeps the remote as it is during the command;
\* "none" also lets the server change between the two resolutions
Update ==
    /\ steps < MaxSteps
    /\ \E fault \in Faults, r2 \in Remotes, t \in Times :
        /\ fault # "none" => r2 = remote
        /\ \E res \in {executeUpdate(World, remote, r2, fault, t)} :
              /\ Commit(res)
              /\ last' = Last("update", Empty, fault, res)
              /\ remote' = r2
              /\ steps' = steps + 1
              /\ UNCHANGED cfg

Force ==
    /\ steps < MaxSteps
    /\ \E fault \in Faults, r2 \in Remotes, t \in Times :
        /\ fault # "none" => r2 = remote
        /\ \E res \in {executeForce(World, remote, r2, fault, t)} :
              /\ Commit(res)
              /\ last' = Last("force", Empty, fault, res)
              /\ remote' = r2
              /\ steps' = steps + 1
              /\ UNCHANGED cfg

Switch ==
    /\ steps < MaxSteps
    /\ \E ver \in SwitchArgs, fault \in {"none", "symlink", "ledger"}, t \in Times :
        \E res \in {executeSwitch(World, ver, fault, t)} :
           /\ Commit(res)
           /\ last' = Last("switch", ver, fault, res)
           /\ steps' = steps + 1
           /\ UNCHANGED <<cfg, remote>>

List ==
    /\ steps < MaxSteps
    /\ \E res \in {executeList(World)} :
          /\ Commit(res)
          /\ last' = Last("list", Empty, "none", res)
          /\ steps' = steps + 1
          /\ UNCHANGED <<cfg, remote>>

Other ==
    /\ steps < MaxSteps
    /\ \E command \in {"switch", "--help", "status"} :
        \E res \in {executeOther(World, command)} :
           /\ Commit(res)
           /\ last' = Last(command, Empty, "none", res)
           /\ steps' = steps + 1
           /\ UNCHANGED <<cfg, remote>>

Next == Check \/ Update \/ Force \/ Switch \/ List \/ Other

Spec == Init /\ [][Next]_vars

(***************************************************************************)
(* Vocabulary of the properties.                                           *)
(***************************************************************************)
\* one invocation of command c has just run
Ran(c) == steps' = steps + 1 /\ last'.cmd = c

\* ... and met no environment failure, with the server unchanged during it
RanClean(c) == Ran(c) /\ last'.fault = "none" /\ remote' = remote

\* a valid version: exactly three dot-separated non-negative integers
ValidVersion(v) ==
    LET parts == Split(v, ".")
    IN Len(parts) = 3 /\ \A i \in 1..3 : parts[i] # <<>> /\ AllDigits(parts[i])

Triple(v) ==
    LET parts == Split(v, ".")
    IN <<DigitsVal(parts[1]), DigitsVal(parts[2]), DigitsVal(parts[3])>>

\* the (major, minor, patch) order on valid versions
TripleLess(a, b) ==
    /\ ValidVersion(a)
    /\ ValidVersion(b)
    /\ LET x == Triple(a)
           y == Triple(b)
       IN \/ x[1] < y[1]
          \/ x[1] = y[1] /\ x[2] < y[2]
          \/ x[1] = y[1] /\ x[2] = y[2] /\ x[3] < y[3]

IsPrefix(a, b) == Len(a) <= Len(b) /\ SubSeq(b, 1, Len(a)) = a

\* what the step added at the end of the ledger file
Appended == SubSeq(ledger', Len(ledger) + 1, Len(ledger'))

\* the tab-separated fields of one line-feed-terminated line
LineFields(line) == Split(SubSeq(line, 1, Len(line) - 1), TAB)

\* text is exactly one ledger line: line-feed-terminated, six tab-separated
\* fields, the first a UTC timestamp
OneLine(text) ==
    /\ text # <<>>
    /\ text[Len(text)] = LF
    /\ LedgerLines(text) = 1
    /\ Len(LineFields(text)) = 6
    /\ LET ts == LineFields(text)[1]
       IN /\ Len(ts) = 9
          /\ \A i \in {1, 2, 4, 5, 7, 8} : ts[i] \in Digits
          /\ ts[3] = ":" /\ ts[6] = ":"
          /\ ts[9] = "Z"

\* ... with the given version, an empty correlation id, the given filename
\* and the given action
OneEntry(text, version, filename, action) ==
    /\ OneLine(text)
    /\ LET f == LineFields(text)
       IN /\ f[2] = version
          /\ f[3] = Empty
          /\ f[4] = filename
          /\ f[6] = <<action>>

\* the version fields of the ledger's lines, in file order
EntryVersions(text) ==
    LET parts == Split(text, LF)
    IN [i \in 1..(Len(parts) - 1) |-> Split(parts[i], TAB)[2]]

\* the current reference is a symbolic link whose target has this base name
LinksTo(ns, name) ==
    /\ ns[cfg.LatestSymlink].kind = "symlink"
    /\ ns[cfg.LatestSymlink].target.base = name

\* the version a successful resolution of the remote gives
RemoteVersion == GetRemoteVersion(remote, TRUE).version
RemoteResolves == GetRemoteVersion(remote, TRUE).err = Nil

(***************************************************************************)
(* C1 .. C10                                                               *)
(***************************************************************************)
\* C1: from a state with no current reference and a remote that resolves
\* through two chained redirects to the artifact of version V, `update`
\* succeeds, V's artifact is on disk in full, the current reference is a
\* symlink whose target base name is V's artifact filename, and the ledger
\* has exactly one new entry, with version V and action `update`.
C1_UpdateFromNoReference ==
    [][(/\ RanClean("update")
        /\ nodes[cfg.LatestSymlink].kind = "none"
        /\ remote.hops = 2
        /\ RemoteResolves)
       => LET name == FileNameOf(cfg.FileNamePattern, RemoteVersion)
          IN /\ last'.err = Nil
             /\ last'.heads = 2
             /\ ArtifactExists([files |-> files'], name)
             /\ files'[name] = Content(remote.name, TRUE)
             /\ LinksTo(nodes', name)
             /\ IsPrefix(ledger, ledger')
             /\ OneEntry(Appended, RemoteVersion, name, "update")]_vars

\* C2: with the default naming pattern and the current reference in the
\* download directory, if the reference is a symlink to the artifact of L and
\* the remote resolves to R with R not greater than L, `update` issues no
\* download request, appends no ledger entry and leaves the reference and
\* every artifact file unchanged.
C2_UpdateUpToDate ==
    [][(/\ RanClean("update")
        /\ cfg.FileNamePattern = DefaultPattern
        /\ cfg.LatestSymlink.dir = DownloadDir
        /\ RemoteResolves
        /\ ValidVersion(RemoteVersion)
        /\ \E L \in Published :
              /\ ValidVersion(L)
              /\ ~TripleLess(L, RemoteVersion)
              /\ LinksTo(nodes, FileNameOf(DefaultPattern, L))
              /\ ArtifactExists(World, FileNameOf(DefaultPattern, L)))
       => /\ last'.gets = 0
          /\ ledger' = ledger
          /\ nodes' = nodes
          /\ files' = files]_vars

\* C3: in every state, CheckForUpdates (when the remote resolves) reports an
\* update exactly when the local version is unknown or strictly less than the
\* remote version in (major, minor, patch) order.
C3_CheckForUpdates ==
    LET chk == CheckForUpdates(World, remote, TRUE)
        localVersion == GetLocalVersion(World)
    IN chk.err = Nil =>
          (chk.needs <=> (localVersion = Empty \/ TripleLess(localVersion, chk.remote)))

\* a local version that is smaller as a triple but greater as a text
C3_Witness ==
    /\ GetLocalVersion(World) = V145
    /\ remote.name = ServedName(V1100)
    /\ CheckForUpdates(World, remote, TRUE).needs
    /\ last.cmd = "check"
    /\ last.exit = 10

\* C4: for every valid version v with no artifact file on disk, `switch v`
\* fails with the version-not-found error (exit status 1), appends no ledger
\* entry and leaves the current reference, the directories and the files as
\* they were.
C4_SwitchMissingArtifact ==
    [][(/\ Ran("switch")
        /\ ValidVersion(last'.arg)
        /\ ~ArtifactExists(World, FileNameOf(cfg.FileNamePattern, last'.arg)))
       => /\ last'.err = <<"error switching to version", "version file not found">>
          /\ last'.exit = 1
          /\ ledger' = ledger
          /\ nodes' = nodes
          /\ files' = files]_vars

\* a failed switch to a missing version, with the earlier reference still there
C4_Witness ==
    /\ last.cmd = "switch"
    /\ ValidVersion(last.arg)
    /\ last.err = <<"error switching to version", "version file not found">>
    /\ ~ArtifactExists(World, FileNameOf(cfg.FileNamePattern, last.arg))
    /\ nodes[cfg.LatestSymlink].kind = "symlink"
    /\ ledger = <<>>

\* C5: for every valid version v whose artifact file is on disk, `switch v`
\* succeeds without a network request, leaves the current reference a symlink
\* to v's artifact (the bare filename when link and artifact share a
\* directory) and appends exactly one ledger entry with version v, action
\* `switch` and an empty digest.
C5_SwitchExistingArtifact ==
    [][(/\ RanClean("switch")
        /\ ValidVersion(last'.arg)
        /\ ArtifactExists(World, FileNameOf(cfg.FileNamePattern, last'.arg)))
       => LET name == FileNameOf(cfg.FileNamePattern, last'.arg)
          IN /\ last'.err = Nil
             /\ last'.gets = 0
             /\ last'.heads = 0
             /\ LinksTo(nodes', name)
             /\ (cfg.LatestSymlink.dir = DownloadDir
                    => nodes'[cfg.LatestSymlink].target.rel = <<>>)
             /\ IsPrefix(ledger, ledger')
             /\ OneEntry(Appended, last'.arg, name, "switch")
             /\ LineFields(Appended)[5] = Empty]_vars

\* C6: `switch` rejects every argument that is not a valid version, also when
\* a file named by the pattern for it is on disk, and on rejection the current
\* reference and the ledger are unchanged.
C6_SwitchRejectsInvalid ==
    [][(RanClean("switch") /\ ~ValidVersion(last'.arg))
       => /\ last'.err # Nil
          /\ nodes' = nodes
          /\ ledger' = ledger]_vars

\* C7: in every state in which the remote resolves to a version V, the local
\* version being V and V's artifact being on disk included, `force` makes a
\* fresh download request that replaces V's artifact, points the current
\* reference at it and appends exactly one ledger entry, tagged `force`.
C7_ForceRefetches ==
    [][(RanClean("force") /\ RemoteResolves /\ remote.hops < GetRedirectLimit)
       => LET name == FileNameOf(cfg.FileNamePattern, RemoteVersion)
          IN /\ last'.err = Nil
             /\ last'.gets = 1
             /\ ArtifactExists([files |-> files'], name)
             /\ files'[name] = Content(remote.name, TRUE)
             /\ \A n \in DOMAIN files \ {name} : n \in DOMAIN files' /\ files'[n] = files[n]
             /\ LinksTo(nodes', name)
             /\ IsPrefix(ledger, ledger')
             /\ OneEntry(Appended, RemoteVersion, name, "force")]_vars

\* a force of the version that an earlier action of the run had installed:
\* two ledger entries for the same version, the second one from a fresh GET
C7_Witness ==
    /\ last.cmd = "force"
    /\ last.err = Nil
    /\ last.gets = 1
    /\ LedgerLines(ledger) = 2
    /\ EntryVersions(ledger)[1] = EntryVersions(ledger)[2]
    /\ cfg.LatestSymlink = LaunchLink
    /\ GetLocalVersion(World) = RemoteVersion

\* C8: `check` changes nothing, whatever its outcome: the artifact files, the
\* current reference, the ledger, the directories and the version file are
\* the same after it as before.
C8_CheckMutatesNothing ==
    [][Ran("check")
       => /\ files' = files
          /\ nodes' = nodes
          /\ ledger' = ledger
          /\ dirs' = dirs
          /\ vfile' = vfile]_vars

\* a check that reports an outdated installation and leaves it in place
C8_Witness ==
    /\ last.cmd = "check"
    /\ last.exit = 10
    /\ nodes[cfg.LatestSymlink].kind = "symlink"
    /\ GetLocalVersion(World) # Empty
    /\ files # <<>>

\* C9: `check` exits with status 10 exactly when the remote resolves and the
\* local version is unknown or older, with 0 when it resolves and no update
\* is needed, and with 1 otherwise; every other command exits with 1 exactly
\* when it fails and with 0 otherwise, never with 10.
C9_ExitStatus ==
    [][steps' = steps + 1
       => IF last'.cmd = "check"
          THEN LET rv == GetRemoteVersion(remote, last'.fault # "head1")
                   localVersion == GetLocalVersion(World)
                   older == localVersion = Empty \/ TripleLess(localVersion, rv.version)
               IN /\ last'.exit = 10 <=> (rv.err = Nil /\ older)
                  /\ last'.exit = 0 <=> (rv.err = Nil /\ ~older)
                  /\ last'.exit = 1 <=> rv.err # Nil
          ELSE /\ last'.exit \in {0, 1}
               /\ last'.exit = 1 <=> last'.err # Nil]_vars

\* a check with exit status 10 after a command that failed with status 1
C9_Witness ==
    /\ last.cmd = "check"
    /\ last.exit = 10
    /\ last.fault = "none"
    /\ steps = 2

\* C10: the ledger before an action is a prefix of the ledger after it; what
\* an action adds is nothing or exactly one line-feed-terminated line of six
\* tab-separated fields (UTC timestamp, version, correlation id, filename,
\* digest, action); check, list, a no-op update and every failed action add
\* nothing.
C10_LedgerAppendOnly ==
    [][steps' = steps + 1
       => /\ IsPrefix(ledger, ledger')
          /\ \/ Appended = <<>>
             \/ /\ last'.cmd \in {"update", "force", "switch"}
                /\ OneLine(Appended)
                /\ LineFields(Appended)[6] = <<last'.cmd>>
          /\ (\/ last'.cmd \notin {"update", "force", "switch"}
              \/ last'.err # Nil
              \/ last'.cmd = "update" /\ last'.heads = 1)
                => Appended = <<>>]_vars

\* a second entry appended behind the first
C10_Witness ==
    /\ LedgerLines(ledger) = 2
    /\ last.cmd = "switch"
    /\ last.err = Nil
    /\ last.fault = "none"

(***************************************************************************)
(* The ledger on its own: a file that Append and other writers extend, and *)
(* that ReadAll and GetLatestVersion read                                   *)
(***************************************************************************)

SomeID == <<"4", "2">>
SomeSum == <<"a", "b", "1", "2">>
LedgerTimes == [sec : 0..MaxTick, nsec : {500}, zone : {0, 3600}]
LedgerActions == {<<"download">>, <<"switch">>}

\* the entries of the data model handed to Append
LedgerEntries ==
    [Timestamp : LedgerTimes, Version : {V145}, InternalID : {Empty, SomeID},
     Filename : {ServedName(V145)}, SHA256 : {Empty, SomeSum}, Action : LedgerActions]

\* a line of the six fields of an entry, under the time text ts
LineOf(ts, action) ==
    ts \o <<TAB>> \o V145 \o <<TAB>> \o SomeID \o <<TAB>> \o ServedName(V145) \o <<TAB>> \o SomeSum
       \o <<TAB>> \o action
TimeZ == FormatRFC3339([sec |-> MaxTick, nsec |-> 0, zone |-> 0])
TimeOffset == FormatRFC3339([sec |-> MaxTick, nsec |-> 0, zone |-> 3600])

\* lines that another writer, or a corruption, leaves in the file
RawLines ==
    { SubSeq(LineOf(TimeZ, <<"switch">>), 1, Len(LineOf(TimeZ, Empty)) - 1),  \* five fields
      LineOf(TimeZ, <<"switch">>) \o <<TAB, "x">>,                              \* seven fields
      LineOf(<<"n", "o", "w">>, <<"switch">>),                                  \* no RFC 3339 time
      LineOf(TimeOffset, <<"switch">>),                                         \* a time with an offset
      LineOf(TimeZ, Empty),                                                     \* six fields, the last empty
      LineOf(TimeZ, <<"switch">>) \o <<TAB>>,                                   \* seven fields, the last empty
      <<" ">> \o LineOf(TimeZ, <<"switch">>),                                   \* a space before the time
      Empty }

LedgerInit ==
    /\ cfg = [FileNamePattern |-> DefaultPattern, LatestSymlink |-> LaunchLink]
    /\ remote = [hops |-> 0, name |-> ServedName(V145)]
    /\ files = <<>>
    /\ nodes = [p \in {LaunchLink} |-> NoNode]
    /\ vfile = <<>>
    /\ ledger = <<>>
    /\ steps = 0
    /\ \E exists \in BOOLEAN :
          /\ dirs \in {d \in SUBSET {ConfigDir} : exists => ConfigDir \in d}
          /\ last = [op |-> "NewLedger", exists |-> exists, readable |-> TRUE, lines |-> <<>>,
                     appended |-> <<>>, clean |-> TRUE, err |-> Nil, entries |-> <<>>, id |-> Empty]

\* Ledger.Append(entry)
LAppend ==
    /\ steps < MaxLines
    /\ \E entry \in LedgerEntries, ok \in BOOLEAN :
       \E res \in {LedgerAppend(World, entry, ok)} :
          /\ ledger' = res.w.ledger
          /\ dirs' = res.w.dirs
          /\ last' = [last EXCEPT !.op = "Append", !.err = res.err, !.entries = <<>>, !.id = Empty,
                                  !.exists = @ \/ res.err = Nil,
                                  !.lines = IF res.err = Nil
                                            THEN Append(@, SubSeq(FormatLine(entry), 1, Len(FormatLine(entry)) - 1))
                                            ELSE @,
                                  !.appended = IF res.err = Nil THEN Append(@, entry) ELSE @]
    /\ steps' = steps + 1
    /\ UNCHANGED <<cfg, remote, files, nodes, vfile>>

\* another writer adds a line to the file
LWrite ==
    /\ steps < MaxLines
    /\ \E line \in RawLines :
          /\ ledger' = ledger \o line \o <<LF>>
          /\ last' = [last EXCEPT !.op = "write", !.err = Nil, !.entries = <<>>, !.id = Empty, !.exists = TRUE,
                                  !.lines = Append(@, line), !.clean = FALSE]
    /\ dirs' = dirs \cup {ConfigDir}
    /\ steps' = steps + 1
    /\ UNCHANGED <<cfg, remote, files, nodes, vfile>>

\* Ledger.ReadAll()
LReadAll ==
    /\ \E readable \in BOOLEAN :
       \E res \in {ReadAll(LedgerFile(last.exists, readable, ledger))} :
          last' = [last EXCEPT !.op = "ReadAll", !.readable = readable, !.err = res.err,
                               !.entries = res.entries, !.id = Empty]
    /\ UNCHANGED <<cfg, remote, dirs, files, nodes, vfile, ledger, steps>>

\* Ledger.GetLatestVersion()
LGetLatestVersion ==
    /\ \E readable \in BOOLEAN :
       \E res \in {GetLatestVersion(LedgerFile(last.exists, readable, ledger))} :
          last' = [last EXCEPT !.op = "GetLatestVersion", !.readable = readable, !.err = res.err,
                               !.entries = res.entry, !.id = Empty]
    /\ UNCHANGED <<cfg, remote, dirs, files, nodes, vfile, ledger, steps>>

\* Ledger.FindByInternalID(id)
LFindByInternalID ==
    /\ \E readable \in BOOLEAN, id \in {Empty, SomeID} :
       \E res \in {FindByInternalID(LedgerFile(last.exists, readable, ledger), id)} :
          last' = [last EXCEPT !.op = "FindByInternalID", !.readable = readable, !.err = res.err,
                               !.entries = res.entries, !.id = id]
    /\ UNCHANGED <<cfg, remote, dirs, files, nodes, vfile, ledger, steps>>

LedgerNext == LAppend \/ LWrite \/ LReadAll \/ LGetLatestVersion \/ LFindByInternalID
LedgerSpec == LedgerInit /\ [][LedgerNext]_vars

\* the entry as the file keeps it: the instant in UTC, whole seconds
Stored(entry) ==
    [entry EXCEPT !.Timestamp = [sec |-> entry.Timestamp.sec, nsec |-> 0, zone |-> 0]]

\* C11: when every line of the ledger was written by Append, starting from an
\* empty ledger, ReadAll returns no error and exactly the appended entries, in
\* the order of the appends, each with its version, correlation id, filename,
\* digest and action, and its timestamp in UTC at second precision.
C11_RoundTrip ==
    (last.op = "ReadAll" /\ last.clean /\ last.readable) =>
        /\ last.err = Nil
        /\ Len(last.entries) = Len(last.appended)
        /\ \A i \in 1..Len(last.appended) : last.entries[i] = Stored(last.appended[i])

\* two different entries, the first with an empty correlation id and a time
\* in another zone, the second with an empty digest, read back
C11_Witness ==
    /\ last.op = "ReadAll" /\ last.clean /\ last.readable
    /\ Len(last.appended) = 2
    /\ last.appended[1].InternalID = Empty /\ last.appended[1].Timestamp.zone # 0
    /\ last.appended[2].SHA256 = Empty /\ last.appended[2].InternalID # Empty
    /\ last.appended[1].Timestamp.sec > last.appended[2].Timestamp.sec
    /\ last.entries = <<Stored(last.appended[1]), Stored(last.appended[2])>>

\* a well-formed line: exactly six tab-separated fields, the first an RFC 3339 time
WellFormed(line) == Len(Split(line, TAB)) = 6 /\ ParseRFC3339(Split(line, TAB)[1]).ok

\* the entries of the well-formed lines among lines[i..], in the order of the file
RECURSIVE EntriesOf(_, _)
EntriesOf(lines, i) ==
    IF i > Len(lines) THEN <<>>
    ELSE (IF WellFormed(lines[i]) THEN <<parseEntry(lines[i]).entry>> ELSE <<>>)
         \o EntriesOf(lines, i + 1)

\* C12: ReadAll returns the empty sequence and no error when the file does
\* not exist; on an existing file it returns no error and exactly the entries
\* of the well-formed lines, in file order: a line that does not split into
\* exactly six tab-separated fields, or whose time is not RFC 3339, is skipped
\* and does not hide the well-formed lines after it.
C12_ReadAll ==
    (last.op = "ReadAll" /\ last.readable) =>
        /\ last.err = Nil
        /\ last.entries = IF last.exists THEN EntriesOf(last.lines, 1) ELSE <<>>

EmptyLedgerError == <<"no entries found in ledger">>

\* C14: on a ledger with zero entries (no file, an empty file, or a file of
\* malformed lines only) GetLatestVersion fails with the empty-ledger error;
\* when the file cannot be opened it fails with another error, so that a caller
\* can tell the two apart.
C14_EmptyLedgerError ==
    (last.op = "GetLatestVersion") =>
        /\ (~last.exists \/ (last.readable /\ EntriesOf(last.lines, 1) = <<>>))
              => last.err = EmptyLedgerError
        /\ (last.exists /\ ~last.readable) => last.err \notin {Nil, EmptyLedgerError}

(***************************************************************************)
(* The version functions on their own: ParseSemver, LessThan and           *)
(* SemverFromName applied to drawn texts                                    *)
(***************************************************************************)

Dot == <<".">>
\* versions of three components of one or two digits
ValidInputs ==
    {ma \o Dot \o mi \o Dot \o pa :
        ma \in {<<"1">>, <<"2">>}, mi \in {<<"4">>, <<"1", "0">>}, pa \in {<<"0">>, <<"5">>}}
    \cup {<<"1", ".", "0", "4", ".", "5">>}
InvalidInputs ==
    { Empty, V14, VBad,
      V145 \o <<".", "6">>,                    \* four parts
      <<"1", ".", ".", "5">>,                  \* an empty part
      <<"1", ".", "+", "4", ".", "5">>,        \* a plus sign
      <<"-", "1", ".", "4", ".", "5">>,        \* a minus sign
      <<"1", ".", "4", ".", "-", "0">>,
      V145 \o <<"-", "r", "c">>,
      <<"v">> \o V145 }
VersionInputs == ValidInputs \cup InvalidInputs

InvalidName == <<"i", "n", "v", "a", "l", "i", "d", "-", "n", "a", "m", "e", ".", "A", "p", "p", "I", "m", "a", "g", "e">>
\* file names handed to the extraction
NameInputs ==
    {GenerateFileName(p, v) : p \in Patterns, v \in {V145, V1100, V14, VBad}}
    \cup {InvalidName, Empty, LaunchBase, NamePrefix \o V145}

VersionInit ==
    /\ cfg \in [FileNamePattern : Patterns, LatestSymlink : {LaunchLink}]
    /\ remote = [hops |-> 0, name |-> ServedName(V145)]
    /\ dirs = {}
    /\ files = <<>>
    /\ nodes = [p \in {LaunchLink} |-> NoNode]
    /\ vfile = <<>>
    /\ ledger = <<>>
    /\ steps = 0
    /\ \E a \in VersionInputs, b \in VersionInputs, name \in NameInputs :
          last = [op |-> "input", a |-> a, b |-> b, name |-> name, ok |-> FALSE,
                  triple |-> <<0, 0, 0>>, less |-> FALSE, version |-> Empty]

\* version.ParseSemver(a)
VParseSemver ==
    /\ \E res \in {ParseSemver(last.a)} :
          last' = [last EXCEPT !.op = "ParseSemver", !.ok = res.ok,
                               !.triple = <<res.major, res.minor, res.patch>>]
    /\ UNCHANGED <<cfg, remote, dirs, files, nodes, vfile, ledger, steps>>

\* version.LessThan(a, b)
VLessThan ==
    /\ last' = [last EXCEPT !.op = "LessThan", !.less = LessThan(last.a, last.b)]
    /\ UNCHANGED <<cfg, remote, dirs, files, nodes, vfile, ledger, steps>>

\* version.SemverFromName(name), under the configured naming pattern
VSemverFromName ==
    /\ last' = [last EXCEPT !.op = "SemverFromName", !.version = SemverFromName(last.name)]
    /\ UNCHANGED <<cfg, remote, dirs, files, nodes, vfile, ledger, steps>>

VersionNext == VParseSemver \/ VLessThan \/ VSemverFromName
VersionSpec == VersionInit /\ [][VersionNext]_vars

\* C15: on valid versions (three components within the range of int)
\* LessThan is the lexicographic order on (major, minor, patch), and a strict
\* total order: irreflexive, asymmetric, transitive, and of two versions that
\* differ as triples exactly one is less than the other.
C15_StrictTotalOrder ==
    (last.op = "LessThan" /\ ValidVersion(last.a) /\ ValidVersion(last.b)) =>
        /\ last.less = TripleLess(last.a, last.b)
        /\ ~LessThan(last.a, last.a)
        /\ last.less => ~LessThan(last.b, last.a)
        /\ \A c \in ValidInputs : (last.less /\ LessThan(last.b, c)) => LessThan(last.a, c)
        /\ (Triple(last.a) # Triple(last.b)) => (last.less # LessThan(last.b, last.a))

\* 1.10.0 against 2.4.5: the order is numeric, and decided by the major component
C15_Witness ==
    /\ last.op = "LessThan" /\ last.less
    /\ last.a = V1100
    /\ last.b = <<"2", ".", "4", ".", "5">>
    /\ LessThan(V145, last.a)

\* C16: ParseSemver accepts exactly the strings of three dot-separated
\* non-negative base-10 integers without a sign character, and returns their
\* values; every other string is rejected.
C16_ParseSemverAccepts ==
    (last.op = "ParseSemver") =>
        /\ last.ok = ValidVersion(last.a)
        /\ last.ok => last.triple = Triple(last.a)

\* C17: LessThan(a, b) is false whenever a or b is empty or is not a valid version.
C17_LessThanInvalid ==
    (last.op = "LessThan" /\ (~ValidVersion(last.a) \/ ~ValidVersion(last.b))) => ~last.less

\* the text of name at the place of the placeholder of pattern, when name
\* starts with the text before the placeholder and ends with the text after it
ExtractByPattern(pattern, name) ==
    LET at == CHOOSE i \in 1..Len(pattern) :
                  SubSeq(pattern, i, i + Len(Placeholder) - 1) = Placeholder
        before == SubSeq(pattern, 1, at - 1)
        after == SubSeq(pattern, at + Len(Placeholder), Len(pattern))
    IN IF /\ Len(name) > Len(before) + Len(after)
          /\ HasPrefix(name, before)
          /\ HasSuffix(name, after)
       THEN SubSeq(name, Len(before) + 1, Len(name) - Len(after))
       ELSE Empty

\* C18: under every configured naming pattern with one <version> placeholder
\* the extraction returns the text of the file name at the placeholder's
\* position when the literal text around it matches, and nothing otherwise:
\* 1.4.5 for Cursor-1.4.5-x86_64.AppImage under the default pattern, nothing
\* for invalid-name.AppImage.
C18_ExtractByPattern ==
    (last.op = "SemverFromName") =>
        /\ last.version = ExtractByPattern(cfg.FileNamePattern, last.name)
        /\ (cfg.FileNamePattern = DefaultPattern /\ last.name = ServedName(V145)) => last.version = V145
        /\ (last.name = InvalidName) => last.version = Empty

(***************************************************************************)
(* The remote resolution on its own: a server that answers the download    *)
(* URL with a chain of redirects and a final status                         *)
(***************************************************************************)

URLNames == {URLBase, InvalidName} \cup {ServedName(v) : v \in {V145, V1100}}
\* the chains of at most MaxHops redirects
Chains == UNION {[1..n -> URLNames] : n \in 1..(MaxHops + 1)}
Statuses == {200, 404}

RemoteInit ==
    /\ cfg = [FileNamePattern |-> DefaultPattern, LatestSymlink |-> LaunchLink]
    /\ remote = [hops |-> 0, name |-> URLBase]
    /\ dirs = {}
    /\ files = <<>>
    /\ nodes = [p \in {LaunchLink} |-> NoNode]
    /\ vfile = <<>>
    /\ ledger = <<>>
    /\ steps = 0
    /\ \E urls \in Chains, status \in Statuses :
          last = [op |-> "NewUpdater", urls |-> urls, status |-> status, ok |-> TRUE,
                  err |-> Nil, version |-> Empty]

\* Updater.GetRemoteVersion() against the server
RGetRemoteVersion ==
    /\ \E ok \in BOOLEAN :
       \E resp \in {ClientHead(last.urls, last.status)} :
       \E res \in {GetRemoteVersion(resp, ok)} :
          /\ remote' = [hops |-> resp.hops, name |-> resp.name]
          /\ last' = [last EXCEPT !.op = "GetRemoteVersion", !.ok = ok, !.err = res.err,
                                  !.version = res.version]
    /\ UNCHANGED <<cfg, dirs, files, nodes, vfile, ledger, steps>>

RemoteNext == RGetRemoteVersion
RemoteSpec == RemoteInit /\ [][RemoteNext]_vars

\* C19: when the request succeeds, whatever the length of the redirect chain,
\* GetRemoteVersion returns the version of the base file name of the last URL
\* of the chain, and an error when that name holds no version; the URLs before
\* the last play no role.
C19_LastURLDecides ==
    (last.op = "GetRemoteVersion" /\ last.ok /\ last.status = 200) =>
        LET final == last.urls[Len(last.urls)]
        IN /\ (SemverFromName(final) # Empty) => (last.err = Nil /\ last.version = SemverFromName(final))
           /\ (SemverFromName(final) = Empty) => (last.err # Nil /\ last.version = Empty)
           /\ remote.name = final

\* two redirects through URLs that name another version, or none
C19_Witness ==
    /\ last.op = "GetRemoteVersion" /\ last.ok /\ last.status = 200
    /\ last.urls = <<URLBase, ServedName(V1100), ServedName(V145)>>
    /\ last.err = Nil
    /\ last.version = V145
    /\ remote.hops = 2

\* C20: GetRemoteVersion returns an error whenever the request fails, and
\* whenever the final response has a status that is not a success, 404 for
\* one, even when the file name of the final URL holds a version.
C20_ErrorOnFailure ==
    (last.op = "GetRemoteVersion" /\ (~last.ok \/ last.status # 200)) => last.err # Nil

(***************************************************************************)
(* The local resolution on its own: GetLocalVersion applied to drawn work  *)
(* directories                                                              *)
(***************************************************************************)

BackupName == <<"B", "a", "c", "k", "u", "p", ".", "A", "p", "p", "I", "m", "a", "g", "e">>
\* files a work directory may hold besides the reference
LocalNames == {ServedName(V145), ServedName(V1100), GenerateFileName(CustomPattern, V145), BackupName}
\* contents of two sizes
Bodies == {<<"x">>, <<"y", "y">>}

LocalInit ==
    /\ cfg \in [FileNamePattern : Patterns, LatestSymlink : {LaunchLink}]
    /\ remote = [hops |-> 0, name |-> URLBase]
    /\ dirs = {DownloadDir}
    /\ files \in UNION {[ns -> {Content(b, TRUE) : b \in Bodies}] : ns \in SUBSET LocalNames}
    /\ nodes \in [{LaunchLink} ->
                    {NoNode} \cup {Symlink(RelTarget(DownloadDir, n)) : n \in LocalNames \cup {InvalidName}}
                    \cup {FileNode(Content(b, TRUE)) : b \in Bodies}]
    /\ vfile = <<>>
    /\ ledger = <<>>
    /\ steps = 0
    /\ last = [op |-> "NewUpdater", version |-> Empty]

\* Updater.GetLocalVersion()
LGetLocalVersion ==
    /\ last' = [op |-> "GetLocalVersion", version |-> GetLocalVersion(World)]
    /\ UNCHANGED <<cfg, remote, dirs, files, nodes, vfile, ledger, steps>>

LocalNext == LGetLocalVersion
LocalSpec == LocalInit /\ [][LocalNext]_vars

\* C21: GetLocalVersion returns the empty version when nothing exists at the
\* reference path; for a symbolic link, whether its target file exists or not,
\* it returns the version that SemverFromName extracts from the base name of
\* the target, which is empty only when that name does not match.
C21_LocalVersionOfLink ==
    (last.op = "GetLocalVersion") =>
        /\ nodes[LaunchLink].kind = "none" => last.version = Empty
        /\ nodes[LaunchLink].kind = "symlink" =>
              last.version = SemverFromName(nodes[LaunchLink].target.base)

\* the files of the listing that carry an artifact name and have this size
Candidates(listing, size) ==
    {i \in 1..Len(listing) :
        /\ SemverFromName(listing[i]) # Empty
        /\ listing[i] \in DOMAIN files
        /\ Size(files[listing[i]]) = size}

\* C22: when the reference is a regular file, GetLocalVersion returns the
\* version of the first file, in the order of the directory listing, that
\* carries an artifact name and has the size of the reference file, and the
\* empty version when there is none; files with other names, the reference
\* itself among them, neither count as the match nor hide a later candidate.
C22_LocalVersionBySize ==
    (last.op = "GetLocalVersion" /\ nodes[LaunchLink].kind = "file") =>
        LET listing == ReadDir(World)
            cands == Candidates(listing, Size(nodes[LaunchLink].content))
        IN IF cands = {} THEN last.version = Empty
           ELSE last.version = SemverFromName(listing[CHOOSE i \in cands : \A j \in cands : i <= j])

(***************************************************************************)
(* C23 .. C30                                                              *)
(***************************************************************************)
\* every file of the download directory except those named in but is as before
FilesKept(but) ==
    \A n \in DOMAIN files \ but : n \in DOMAIN files' /\ files'[n] = files[n]

\* C23: an update that finds the artifact file of the version the server
\* resolves to already on disk issues no GET, does not fail at the download
\* and leaves every file as it is; check, update, switch and list never change
\* or delete an existing artifact file; force changes or deletes none but the
\* artifact of the version resolved when it starts.
C23_ArtifactsImmutable ==
    [][/\ (Ran("update") /\ last'.fault \notin {"head1", "head2"}
           /\ GetRemoteVersion(remote', TRUE).err = Nil
           /\ ArtifactExists(World, FileNameOf(cfg.FileNamePattern, GetRemoteVersion(remote', TRUE).version)))
          => /\ last'.gets = 0
             /\ files' = files
             /\ (last'.err = Nil \/ last'.err[1] # "error downloading Cursor")
       /\ (Ran("check") \/ Ran("update") \/ Ran("switch") \/ Ran("list")) => FilesKept({})
       /\ Ran("force") => FilesKept({FileNameOf(cfg.FileNamePattern, RemoteVersion)})]_vars

\* an update was needed, found the artifact on disk, fetched nothing and
\* repointed the reference
C23_Witness ==
    /\ last.cmd = "update" /\ last.err = Nil /\ last.gets = 0 /\ last.heads = 2
    /\ steps = 1
    /\ LinksTo(nodes, FileNameOf(cfg.FileNamePattern, V1100))
    /\ LedgerLines(ledger) = 1
    /\ Cardinality(DOMAIN files) = 2

\* the environment failures of the remote resolution and of the download
TransferFaults == {"head1", "head2", "hstatus", "get", "status", "write"}

\* the update reaches the step that the injected failure breaks
UpdateMeets(fault) ==
    \/ fault \in {"head1", "hstatus"}
    \/ /\ fault = "head2"
       /\ CheckForUpdates(World, remote, TRUE).err = Nil
       /\ CheckForUpdates(World, remote, TRUE).needs
    \/ /\ fault \in {"get", "status", "write"}
       /\ CheckForUpdates(World, remote, TRUE).err = Nil
       /\ CheckForUpdates(World, remote, TRUE).needs
       /\ ~ArtifactExists(World, FileNameOf(cfg.FileNamePattern, RemoteVersion))

\* C24: when the remote resolution or the download fails during update or
\* force (a request fails, the final status of the resolution or of the
\* download is not a success, the file write fails, or the final URL names no
\* version), the action returns an error, no ledger entry is appended and the
\* reference paths are exactly as before.
C24_TransferFailureAborts ==
    [][((Ran("update") /\ (~RemoteResolves \/ (last'.fault \in TransferFaults /\ UpdateMeets(last'.fault))))
        \/ (Ran("force") /\ (~RemoteResolves \/ last'.fault \in TransferFaults)))
       => /\ last'.err # Nil
          /\ last'.exit = 1
          /\ ledger' = ledger
          /\ nodes' = nodes]_vars


\* C25: when only the ledger append fails, after a download and a switch that
\* succeed (update, force) or after a switch that succeeds, the action reports
\* success, the reference points at the artifact of the version and the ledger
\* is as before.
C25_LedgerFailureNonFatal ==
    [][/\ (Ran("update") /\ last'.fault = "ledger" /\ RemoteResolves
           /\ CheckForUpdates(World, remote, TRUE).needs
           /\ (cfg.LatestSymlink.dir \in dirs
               \/ ~ArtifactExists(World, FileNameOf(cfg.FileNamePattern, RemoteVersion))))
          => /\ last'.err = Nil /\ last'.exit = 0
             /\ LinksTo(nodes', FileNameOf(cfg.FileNamePattern, RemoteVersion))
             /\ ledger' = ledger
       /\ (Ran("force") /\ last'.fault = "ledger" /\ RemoteResolves)
          => /\ last'.err = Nil /\ last'.exit = 0
             /\ LinksTo(nodes', FileNameOf(cfg.FileNamePattern, RemoteVersion))
             /\ ledger' = ledger
       /\ (Ran("switch") /\ last'.fault = "ledger"
           /\ SemverFromName(ServedName(last'.arg)) # Empty
           /\ ArtifactExists(World, FileNameOf(cfg.FileNamePattern, last'.arg))
           /\ cfg.LatestSymlink.dir \in dirs)
          => /\ last'.err = Nil /\ last'.exit = 0
             /\ LinksTo(nodes', FileNameOf(cfg.FileNamePattern, last'.arg))
             /\ ledger' = ledger]_vars

\* a switch to another version whose ledger append failed
C25_Witness ==
    /\ last.cmd = "switch" /\ last.fault = "ledger" /\ last.err = Nil
    /\ steps = 2
    /\ LedgerLines(ledger) = 1
    /\ LinksTo(nodes, FileNameOf(cfg.FileNamePattern, last.arg))
    /\ EntryVersions(ledger)[1] # last.arg

\* C26: update, force and switch create the directories they need: with no
\* environment failure they succeed and point the reference at the artifact
\* also when the download directory, the directory of the reference path or
\* the directory of the ledger does not exist yet, a switch and an update
\* whose artifact is on disk included.
C26_DirectoriesCreated ==
    [][/\ (RanClean("update") /\ RemoteResolves /\ CheckForUpdates(World, remote, TRUE).needs)
          => /\ last'.err = Nil
             /\ LinksTo(nodes', FileNameOf(cfg.FileNamePattern, RemoteVersion))
       /\ (RanClean("force") /\ RemoteResolves)
          => /\ last'.err = Nil
             /\ LinksTo(nodes', FileNameOf(cfg.FileNamePattern, RemoteVersion))
       /\ (RanClean("switch") /\ SemverFromName(ServedName(last'.arg)) # Empty
           /\ ArtifactExists(World, FileNameOf(cfg.FileNamePattern, last'.arg)))
          => /\ last'.err = Nil
             /\ LinksTo(nodes', FileNameOf(cfg.FileNamePattern, last'.arg))]_vars

\* C27: FindByInternalID(id) returns no error and exactly the entries of
\* ReadAll whose correlation id is id, in their order; the result is empty
\* when no entry has that id.
C27_FindByInternalID ==
    (last.op = "FindByInternalID" /\ last.readable) =>
        LET all == ReadAll(LedgerFile(last.exists, TRUE, ledger)).entries
            hits == {i \in 1..Len(all) : all[i].InternalID = last.id}
        IN /\ last.err = Nil
           /\ Len(last.entries) = Cardinality(hits)
           /\ \A k \in 1..Len(last.entries) :
                 \E i \in hits : /\ Cardinality({j \in hits : j < i}) = k - 1
                                 /\ last.entries[k] = all[i]

\* two entries with the id searched for, found in the order of the file
C27_Witness ==
    /\ last.op = "FindByInternalID" /\ last.readable /\ last.id = SomeID
    /\ Len(last.appended) = 2
    /\ last.appended[1].Timestamp # last.appended[2].Timestamp
    /\ last.entries = <<Stored(last.appended[1]), Stored(last.appended[2])>>

\* the file system after the step
WorldAfter == [dirs |-> dirs', files |-> files', nodes |-> nodes', vfile |-> vfile', ledger |-> ledger']

\* C28: under every configuration (either naming pattern, any reference
\* path), when update, force or switch succeeds and leaves the reference a
\* link to the artifact of version V, GetLocalVersion returns V afterwards, and
\* after such an update an update against the unchanged remote is not needed.
C28_SwitchWritesWhatLocalReads ==
    [][/\ \A V \in VersionTexts :
            (/\ RanClean("update") \/ RanClean("force") \/ RanClean("switch")
             /\ last'.err = Nil
             /\ V # Empty
             /\ LinksTo(nodes', FileNameOf(cfg.FileNamePattern, V)))
            => GetLocalVersion(WorldAfter) = V
       /\ (RanClean("update") /\ last'.err = Nil /\ RemoteResolves)
            => ~CheckForUpdates(WorldAfter, remote', TRUE).needs]_vars

(***************************************************************************)
(* The switch step in its own steps: SwitchToVersion as the sequence of    *)
(* its system calls, with an interruption possible between any two          *)
(***************************************************************************)

\* the link SwitchToVersion creates for a version
LinkFor(version) ==
    Symlink(RelTarget(cfg.LatestSymlink.dir, FileNameOf(cfg.FileNamePattern, version)))

SwitchInit ==
    /\ cfg \in Configs
    /\ remote = [hops |-> 0, name |-> URLBase]
    /\ files \in InitFiles
    /\ \E target \in {Empty} \cup {FileNameOf(cfg.FileNamePattern, v) : v \in Published} :
          nodes = [p \in {LaunchLink, cfg.LatestSymlink} |->
                     IF p = cfg.LatestSymlink /\ target # Empty
                     THEN Symlink(RelTarget(p.dir, target)) ELSE NoNode]
    /\ dirs \in {d \in SUBSET {DownloadDir, BinDir, ConfigDir} :
                   /\ DownloadDir \in d
                   /\ (nodes[cfg.LatestSymlink].kind # "none" => cfg.LatestSymlink.dir \in d)}
    /\ vfile = <<>>
    /\ ledger = <<>>
    /\ steps = 0
    /\ \E version \in Published :
          last = [op |-> "SwitchToVersion", pc |-> "stat", at |-> "stat", version |-> version,
                  prev |-> nodes[cfg.LatestSymlink], err |-> Nil]

\* os.Stat(filePath): the version file must exist
SStat ==
    /\ last.pc = "stat"
    /\ last' = IF ArtifactExists(World, FileNameOf(cfg.FileNamePattern, last.version))
               THEN [last EXCEPT !.pc = "lstat"]
               ELSE [last EXCEPT !.pc = "done", !.err = <<"version file not found">>]
    /\ steps' = steps + 1
    /\ UNCHANGED <<cfg, remote, dirs, files, nodes, vfile, ledger>>

\* an SRemove that leaves the existing reference in place
SRemove_skipping ==
    /\ last.pc = "lstat"
    /\ last' = [last EXCEPT !.pc = "symlink"]
    /\ steps' = steps + 1
    /\ UNCHANGED <<cfg, remote, dirs, files, nodes, vfile, ledger>>

\* os.Lstat(symlinkPath), and os.Remove when something is there
SRemove ==
    /\ last.pc = "lstat"
    /\ IF LstatExists(World, cfg.LatestSymlink)
       THEN \E ok \in BOOLEAN :
               IF ok THEN /\ nodes' = [nodes EXCEPT ![cfg.LatestSymlink] = NoNode]
                          /\ last' = [last EXCEPT !.pc = "symlink"]
               ELSE /\ nodes' = nodes
                    /\ last' = [last EXCEPT !.pc = "done", !.err = <<"failed to remove existing symlink">>]
       ELSE /\ nodes' = nodes
            /\ last' = [last EXCEPT !.pc = "symlink"]
    /\ steps' = steps + 1
    /\ UNCHANGED <<cfg, remote, dirs, files, vfile, ledger>>

\* filepath.Rel and os.Symlink(relativePath, symlinkPath)
SSymlink ==
    /\ last.pc = "symlink"
    /\ \E ok \in BOOLEAN :
          IF ok /\ cfg.LatestSymlink.dir \in dirs
          THEN /\ nodes' = [nodes EXCEPT ![cfg.LatestSymlink] = LinkFor(last.version)]
               /\ last' = [last EXCEPT !.pc = "done"]
          ELSE /\ nodes' = nodes
               /\ last' = [last EXCEPT !.pc = "done", !.err = <<"failed to create symlink">>]
    /\ steps' = steps + 1
    /\ UNCHANGED <<cfg, remote, dirs, files, vfile, ledger>>

\* the process is interrupted before its next system call
SInterrupt ==
    /\ last.pc \in {"stat", "lstat", "symlink"}
    /\ last' = [last EXCEPT !.pc = "interrupted", !.at = last.pc]
    /\ UNCHANGED <<cfg, remote, dirs, files, nodes, vfile, ledger, steps>>

SwitchNext == SStat \/ SRemove \/ SSymlink \/ SInterrupt
SwitchSpec == SwitchInit /\ [][SwitchNext]_vars

\* C29: at every point of the switch step, also after an interruption or a
\* failed link creation, the reference path holds the previous reference,
\* nothing, or a symbolic link to the requested artifact; an absent reference
\* is tolerated by the removal; an interruption between the removal and the
\* creation leaves no reference; a step that ends without error leaves the
\* fresh link.
C29_SwitchStepStates ==
    /\ nodes[cfg.LatestSymlink] \in {last.prev, NoNode, LinkFor(last.version)}
    /\ (last.prev = NoNode) => last.err # <<"failed to remove existing symlink">>
    /\ (last.pc = "interrupted" /\ last.at = "symlink") => nodes[cfg.LatestSymlink] = NoNode
    /\ (last.pc = "symlink") => nodes[cfg.LatestSymlink] = NoNode
    /\ (last.pc = "done" /\ last.err = Nil) => nodes[cfg.LatestSymlink] = LinkFor(last.version)
    /\ (last.pc \in {"stat", "lstat"} \/ last.err = <<"version file not found">>)
          => nodes[cfg.LatestSymlink] = last.prev

\* interrupted between the removal of a link to another version and the creation
C29_Witness ==
    /\ last.pc = "interrupted" /\ last.at = "symlink"
    /\ last.prev.kind = "symlink"
    /\ last.prev # LinkFor(last.version)
    /\ nodes[cfg.LatestSymlink] = NoNode

\* C30: starting from a reference that is absent or a link to an existing
\* artifact, after any sequence of check, update, force, switch and list,
\* actions that fail part-way included, a reference that is a symbolic link
\* points to an artifact that exists.
C30_NoDanglingReference ==
    \A p \in DOMAIN nodes :
       nodes[p].kind = "symlink" => ArtifactExists(World, nodes[p].target.base)

(***************************************************************************)
(* C31 .. C39                                                              *)
(***************************************************************************)
\* C31: every ledger entry appended by update or force is self-consistent:
\* its filename is the artifact filename generated from its version, its
\* digest is the digest of that file, and the current reference points to
\* that file when it is appended, also when the remote resolves to another
\* version at the second resolution than at the first.
C31_EntrySelfConsistent ==
    [][((Ran("update") \/ Ran("force")) /\ Appended # <<>>)
          => /\ OneLine(Appended)
             /\ \E f \in {LineFields(Appended)} :
                   /\ f[4] = FileNameOf(cfg.FileNamePattern, f[2])
                   /\ ArtifactExists(WorldAfter, f[4])
                   /\ f[5] = SHA256Hex(files'[f[4]])
                   /\ LinksTo(nodes', f[4])]_vars

\* C32: an artifact file that a failed download left partially written is
\* not trusted: an update that ends with the current reference newly pointing
\* to that file has downloaded it again, in full.
C32_PartialFileUntrusted ==
    [][\A n \in DOMAIN files :
          (/\ Ran("update")
           /\ ~files[n].full
           /\ last'.err = Nil
           /\ ~LinksTo(nodes, n)
           /\ LinksTo(nodes', n))
          => (last'.gets >= 1 /\ files'[n].full)]_vars

\* C33: when the ledger holds only entries appended in non-decreasing time
\* order (several may carry the same second), GetLatestVersion returns the
\* entry that was appended last.
C33_LatestIsLastAppended ==
    (/\ last.op = "GetLatestVersion" /\ last.readable
     /\ last.clean
     /\ last.appended # <<>>
     /\ \A i \in 1..(Len(last.appended) - 1) :
           ~After(last.appended[i].Timestamp, last.appended[i + 1].Timestamp))
    => /\ last.err = Nil
       /\ last.entries = <<Stored(last.appended[Len(last.appended)])>>

(***************************************************************************)
(* The HEAD request of GetRemoteVersion request by request: the client's   *)
(* CheckRedirect returns nil for every redirect, so no limit on the number *)
(* of redirects applies, and the client has no timeout                     *)
(***************************************************************************)
\* URLs of the server
MaxSites == 3
\* the base names of the server's URLs; the first is the download URL
SiteNames == <<URLBase, ServedName(V145), ServedName(V1100)>>

\* to[i] is the URL that URL i redirects to, 0 when it answers itself
HeadInit ==
    /\ cfg = [FileNamePattern |-> DefaultPattern, LatestSymlink |-> LaunchLink]
    /\ remote = [hops |-> 0, name |-> URLBase]
    /\ dirs = {}
    /\ files = <<>>
    /\ nodes = [p \in {LaunchLink} |-> NoNode]
    /\ vfile = <<>>
    /\ ledger = <<>>
    /\ steps = 0
    /\ \E to \in [1..MaxSites -> 0..MaxSites] :
          last = [op |-> "GetRemoteVersion", to |-> to, at |-> 1, pc |-> "request",
                  err |-> Nil, version |-> Empty]

\* one request of client.Head: it fails, or is answered with a redirect,
\* which is followed, or with the final response
HRequest ==
    /\ last.pc = "request"
    /\ \E ok \in BOOLEAN :
          IF ok /\ last.to[last.at] # 0
          THEN last' = [last EXCEPT !.at = last.to[last.at]]
          ELSE \E res \in {GetRemoteVersion([hops |-> 0, name |-> SiteNames[last.at]], ok)} :
                  last' = [last EXCEPT !.pc = "done", !.err = res.err, !.version = res.version]
    /\ UNCHANGED <<cfg, remote, dirs, files, nodes, vfile, ledger, steps>>

HeadSpec == HeadInit /\ [][HRequest]_vars /\ WF_vars(HRequest)

\* C34: GetRemoteVersion terminates, with a version or an error, for every
\* redirect configuration of the server, redirect cycles included.
C34_GetRemoteVersionTerminates ==
    <>(last.pc = "done" /\ (last.err # Nil \/ last.version # Empty))

\* C35: update never lowers the installed version: when the current
\* reference is a symbolic link to the artifact name of a version L before an
\* update, and a link to the artifact name of a version K after it, successful
\* or failed, then K is not less than L.
C35_UpdateNeverLowers ==
    [][\A L \in Published, K \in Published :
          (/\ Ran("update")
           /\ LinksTo(nodes, FileNameOf(cfg.FileNamePattern, L))
           /\ LinksTo(nodes', FileNameOf(cfg.FileNamePattern, K)))
          => ~TripleLess(K, L)]_vars

(***************************************************************************)
(* Two invocations appending to the ledger at the same time: each Append   *)
(* opens the file with O_APPEND and writes its line with one WriteString,  *)
(* which the system appends at the end of the file in one piece; the calls *)
(* of the two processes interleave in any order                            *)
(***************************************************************************)
MaxProcs == 2

AppendInit ==
    /\ cfg = [FileNamePattern |-> DefaultPattern, LatestSymlink |-> LaunchLink]
    /\ remote = [hops |-> 0, name |-> ServedName(V145)]
    /\ files = <<>>
    /\ nodes = [p \in {LaunchLink} |-> NoNode]
    /\ vfile = <<>>
    /\ steps = 0
    /\ \E before \in {<<>>} \cup {FormatLine(e) : e \in {x \in LedgerEntries : x.InternalID = SomeID /\ x.SHA256 = Empty}} :
          /\ ledger = before
          /\ dirs = IF before = <<>> THEN {} ELSE {ConfigDir}
          /\ \E entries \in [1..MaxProcs -> {x \in LedgerEntries : x.SHA256 = SomeSum /\ x.Timestamp.zone = 0}] :
                last = [op |-> "Append", pc |-> [p \in 1..MaxProcs |-> "open"], entry |-> entries,
                        err |-> [p \in 1..MaxProcs |-> Nil], off |-> [p \in 1..MaxProcs |-> 0],
                        before |-> before]

\* process p: os.MkdirAll and os.OpenFile(O_APPEND|O_CREATE|O_WRONLY); off is
\* the length of the file when it is opened
POpen(p) ==
    /\ last.pc[p] = "open"
    /\ \E ok \in BOOLEAN :
          IF ok THEN /\ dirs' = dirs \cup {ConfigDir}
                     /\ last' = [last EXCEPT !.pc[p] = "write", !.off[p] = Len(ledger)]
          ELSE /\ dirs' = dirs
               /\ last' = [last EXCEPT !.pc[p] = "done", !.err[p] = <<"failed to open ledger file">>]
    /\ UNCHANGED <<cfg, remote, files, nodes, vfile, ledger, steps>>

\* a write at the position the file had when it was opened, as without O_APPEND
PWrite_atOffset(p) ==
    /\ last.pc[p] = "write"
    /\ ledger' = SubSeq(ledger, 1, last.off[p]) \o FormatLine(last.entry[p])
                    \o SubSeq(ledger, last.off[p] + Len(FormatLine(last.entry[p])) + 1, Len(ledger))
    /\ last' = [last EXCEPT !.pc[p] = "done"]
    /\ UNCHANGED <<cfg, remote, dirs, files, nodes, vfile, steps>>

\* process p: fmt.Sprintf of the line, file.WriteString(line), file.Close()
PWrite(p) ==
    /\ last.pc[p] = "write"
    /\ \E ok \in BOOLEAN :
          IF ok THEN /\ ledger' = ledger \o FormatLine(last.entry[p])
                     /\ last' = [last EXCEPT !.pc[p] = "done"]
          ELSE /\ ledger' = ledger
               /\ last' = [last EXCEPT !.pc[p] = "done", !.err[p] = <<"failed to write to ledger file">>]
    /\ UNCHANGED <<cfg, remote, dirs, files, nodes, vfile, steps>>

AppendNext == \E p \in 1..MaxProcs : POpen(p) \/ PWrite(p)
AppendSpec == AppendInit /\ [][AppendNext]_vars

\* the lines of the processes, one after the other in the given order
RECURSIVE LinesIn(_, _)
LinesIn(order, i) ==
    IF i > Len(order) THEN <<>>
    ELSE FormatLine(last.entry[order[i]]) \o LinesIn(order, i + 1)

\* the orders in which the processes may come
Orders == {o \in [1..MaxProcs -> 1..MaxProcs] : \A a, b \in 1..MaxProcs : o[a] = o[b] => a = b}

\* C36: when the invocations append concurrently and all appends succeed, the
\* ledger is what it was before followed by the complete lines of all of them,
\* each of six tab-separated fields, in some order: no entry is lost and the
\* lines are not interleaved.
C36_ConcurrentAppends ==
    (\A p \in 1..MaxProcs : last.pc[p] = "done" /\ last.err[p] = Nil)
    => /\ \E o \in Orders : ledger = last.before \o LinesIn(o, 1)
       /\ \A p \in 1..MaxProcs : OneLine(FormatLine(last.entry[p]))
       /\ LedgerLines(ledger) = LedgerLines(last.before) + MaxProcs

\* all processes had opened the file before any of them wrote, and they wrote
\* in the reverse order
C36_Witness ==
    /\ \A p \in 1..MaxProcs : last.pc[p] = "done" /\ last.err[p] = Nil
    /\ \A p \in 1..MaxProcs : last.off[p] = Len(last.before)
    /\ last.entry[1] # last.entry[2]
    /\ last.before # <<>>
    /\ ledger = last.before \o LinesIn([i \in 1..MaxProcs |-> MaxProcs + 1 - i], 1)

(***************************************************************************)
(* The transfer of DownloadCursor: io.Copy(file, progressReader) reads a   *)
(* chunk through ProgressReader.Read, which may invoke the callback, and   *)
(* then writes the chunk to the artifact file. Times are in milliseconds.  *)
(***************************************************************************)
\* iterations of the copy loop
MaxReads == 4
\* the time of the first Read, counted from the zero time.Time that
\* lastUpdate holds at first
Epoch == 1000
\* 100*time.Millisecond
UpdateInterval == 100

\* ProgressReader.Read when the wrapped reader returns n bytes at time now:
\* the reader afterwards and the updates handed to the callback. Speed is the
\* quotient bytes / ms, kept as its two terms
Read(pr, n, now) ==
    IF n > 0 /\ pr.Callback /\ now - pr.lastUpdate >= UpdateInterval
    THEN [pr |-> [pr EXCEPT !.BytesDownloaded = @ + n, !.lastUpdate = now],
          updates |-> <<[BytesDownloaded |-> pr.BytesDownloaded + n,
                         Speed |-> [bytes |-> pr.BytesDownloaded + n, ms |-> now - pr.lastUpdate]]>>]
    ELSE [pr |-> [pr EXCEPT !.BytesDownloaded = @ + n], updates |-> <<>>]

CopyInit ==
    /\ cfg = [FileNamePattern |-> DefaultPattern, LatestSymlink |-> LaunchLink]
    /\ remote = [hops |-> 1, name |-> ServedName(V145)]
    /\ dirs = {DownloadDir}
    /\ files = <<>>
    /\ nodes = [p \in {LaunchLink} |-> NoNode]
    /\ vfile = <<>>
    /\ ledger = <<>>
    /\ steps = 0
    /\ \E callback \in BOOLEAN :
          last = [op |-> "DownloadCursor", pc |-> "copy", now |-> Epoch,
                  pr |-> [Callback |-> callback, BytesDownloaded |-> 0, lastUpdate |-> 0],
                  read |-> 0, written |-> 0, calls |-> <<>>, err |-> Nil]

\* one iteration of io.Copy: after d milliseconds the body yields n bytes (none
\* at its end), Read counts them and may report, and the bytes are written to
\* the file; each call records the time, and the bytes read and written so far
Copy ==
    /\ last.pc = "copy"
    /\ steps < MaxReads
    /\ \E d \in {0, 50, 100}, n \in 0..2, ok \in BOOLEAN :
       \E res \in {Read(last.pr, n, last.now + d)} :
          last' = [last EXCEPT
                     !.now = @ + d,
                     !.pr = res.pr,
                     !.read = @ + n,
                     !.calls = @ \o [i \in 1..Len(res.updates) |->
                                       [at |-> last.now + d, read |-> last.read + n,
                                        written |-> last.written, update |-> res.updates[i]]],
                     !.written = IF ok THEN @ + n ELSE @,
                     !.pc = IF n = 0 \/ ~ok THEN "done" ELSE "copy",
                     !.err = IF n > 0 /\ ~ok THEN <<"failed to write file">> ELSE Nil]
    /\ steps' = steps + 1
    /\ UNCHANGED <<cfg, remote, dirs, files, nodes, vfile, ledger>>

CopySpec == CopyInit /\ [][Copy]_vars

\* C37: with a callback registered, two consecutive invocations are at least
\* 100ms apart, each reports the cumulative number of bytes read so far, the
\* reported counts strictly increase and none exceeds the number of bytes
\* written to the artifact file when it is reported; without a callback none
\* is invoked.
C37_ProgressCallbacks ==
    /\ \A i \in 1..(Len(last.calls) - 1) :
          /\ last.calls[i + 1].at - last.calls[i].at >= 100
          /\ last.calls[i].update.BytesDownloaded < last.calls[i + 1].update.BytesDownloaded
    /\ \A i \in 1..Len(last.calls) :
          /\ last.calls[i].update.BytesDownloaded = last.calls[i].read
          /\ last.calls[i].update.BytesDownloaded <= last.calls[i].written
    /\ ~last.pr.Callback => last.calls = <<>>

\* C38: the throughput of every callback after the first is the number of
\* bytes transferred since the previous callback divided by the time elapsed
\* since the previous callback (the two quotients compared by cross
\* multiplication).
C38_InstantaneousSpeed ==
    \A i \in 2..Len(last.calls) :
       last.calls[i].update.Speed.bytes * (last.calls[i].at - last.calls[i - 1].at)
          = (last.calls[i].read - last.calls[i - 1].read) * last.calls[i].update.Speed.ms

(***************************************************************************)
(* The configuration an invocation runs with: executeCommand loads the     *)
(* configuration file over the defaults and goes on to the action          *)
(***************************************************************************)
\* config.NewConfig: the default values (paths as texts)
NewConfig ==
    [DownloadDir |-> <<"d">>, FileNamePattern |-> DefaultPattern,
     LatestSymlink |-> <<"d", "/", "l">>, LedgerPath |-> <<"c", "/", "g">>]

\* Config.Validate
Validate(c) ==
    IF c.DownloadDir = Empty THEN <<"download_dir cannot be empty">>
    ELSE IF c.FileNamePattern = Empty THEN <<"file_name_pattern cannot be empty">>
    ELSE IF ~Contains(c.FileNamePattern, Placeholder)
    THEN <<"file_name_pattern must contain <version> placeholder">>
    ELSE IF c.LatestSymlink = Empty THEN <<"latest_symlink cannot be empty">>
    ELSE IF c.LedgerPath = Empty THEN <<"ledger_path cannot be empty">>
    ELSE Nil

\* Config.LoadOrCreateDefault on a configuration file: each key of the file is
\* absent (<<>>) or present with a text (<<text>>); yaml.Unmarshal sets the
\* fields whose keys are present and leaves the others at their defaults; a
\* missing file is created with the defaults and loaded
LoadOrCreateDefault(c, file) ==
    IF ~file.exists THEN [err |-> Nil, c |-> NewConfig]
    ELSE IF ~file.parses THEN [err |-> <<"failed to parse config file">>, c |-> c]
    ELSE [err |-> Nil,
          c |-> [k \in DOMAIN c |-> IF file.keys[k] = <<>> THEN c[k] ELSE file.keys[k][1]]]

\* configuration files tried
ConfigFiles ==
    {[exists |-> FALSE, parses |-> TRUE,
      keys |-> [k \in DOMAIN NewConfig |-> <<>>]]}
    \cup [exists : {TRUE}, parses : BOOLEAN,
          keys : [DownloadDir : {<<>>, <<Empty>>, <<<<"w">>>>},
                  FileNamePattern : {<<>>, <<Empty>>, <<LaunchBase>>, <<CustomPattern>>},
                  LatestSymlink : {<<>>, <<Empty>>, <<<<"w", "/", "l">>>>},
                  LedgerPath : {<<>>, <<Empty>>, <<<<"w", "/", "g">>>>}]]

ConfigInit ==
    /\ cfg = [FileNamePattern |-> DefaultPattern, LatestSymlink |-> LaunchLink]
    /\ remote = [hops |-> 0, name |-> URLBase]
    /\ dirs = {}
    /\ files = <<>>
    /\ nodes = [p \in {LaunchLink} |-> NoNode]
    /\ vfile = <<>>
    /\ ledger = <<>>
    /\ steps = 0
    /\ \E file \in ConfigFiles :
          last = [op |-> "main", file |-> file, c |-> NewConfig, err |-> Nil, action |-> FALSE]

\* executeCommand up to the switch on the command: NewConfig,
\* LoadOrCreateDefault, ExpandPaths (the paths here hold no ~), then the action
CExecuteCommand ==
    /\ last.op = "main"
    /\ \E res \in {LoadOrCreateDefault(NewConfig, last.file)} :
          last' = [last EXCEPT !.op = "executeCommand", !.c = res.c,
                               !.err = IF res.err = Nil THEN Nil ELSE Wrap("error loading config", res.err),
                               !.action = (res.err = Nil)]
    /\ UNCHANGED <<cfg, remote, dirs, files, nodes, vfile, ledger, steps>>

ConfigSpec == ConfigInit /\ [][CExecuteCommand]_vars

\* C39: every configuration with which the CLI goes on to run an action
\* satisfies Config.Validate, and under it distinct versions have distinct
\* artifact filenames.
C39_ConfigValidated ==
    (last.op = "executeCommand" /\ last.action)
    => /\ Validate(last.c) = Nil
       /\ \A v \in Published, u \in Published :
             v # u => GenerateFileName(last.c.FileNamePattern, v)
                         # GenerateFileName(last.c.FileNamePattern, u)

====
